---- MODULE Spec2Model ----
(***************************************************************************)
(* A model of the retrieval-augmented query pipeline of PalmMind:          *)
(*   app/services/vector_store.py  (InMemoryVectorStore, QdrantVectorStore)*)
(*   app/services/chat_memory.py   (ChatMemoryService)                     *)
(*   app/services/rag_engine.py    (RAGEngine)                             *)
(*   app/services/chunking.py      (FixedSizeChunking, SemanticChunking)   *)
(*   app/services/embeddings.py    (EmbeddingService)                      *)
(*   app/api/documents.py          (upload_document, delete_document)      *)
(* Python values are modelled structurally: a str is a sequence of         *)
(* one-character strings, a dict is an insertion-ordered sequence of       *)
(* <<key, value>> pairs (or a function where the order is never read), an  *)
(* Optional value carries a tag so that None differs from every value.     *)
(***************************************************************************)
EXTENDS Integers, Sequences, FiniteSets, TLC

VARIABLES
    vector_store_type,  \* settings.vector_store_type: "qdrant" or "memory"
    vectors,            \* InMemoryVectorStore.vectors  (ordered dict id -> vector)
    metadata,           \* InMemoryVectorStore.metadata (ordered dict id -> payload)
    collection,         \* the remote Qdrant collection behind QdrantVectorStore.client
    last,               \* the last call on a service: its arguments and its outcome
    deleted,            \* <<id, returned True>> of the stored ids given to a
                        \* delete_vectors, until an add stores the id again
    llm_client,         \* RAGEngine.llm_client: TRUE when a cohere client is configured
    redis,              \* the session store: key chat:<session> -> list, newest first
    expiry,             \* the session store: key -> seconds to live, or NoExpiry
    req,                \* the process_chat_query coroutines in flight
    turns,              \* per session: the turns pushed since the key was last
                        \* cleared or expired, oldest first
    age,                \* per session: seconds since the last push, up to ttl
    documents,          \* the committed rows of the documents table
    chunks_collection,  \* mongodb.document_chunks
    drawn               \* the uuid4 values drawn so far

\* no uuid4 value drawn yet: of document ids, of chunk ids
NoneDrawn == [document_ids |-> {}, chunk_ids |-> {}]

storeVars == <<vector_store_type, vectors, metadata, collection, last, deleted>>
queryVars == <<llm_client, redis, expiry, req>>
memoryVars == <<turns, age>>
docVars == <<documents, chunks_collection, drawn>>
vars == <<vector_store_type, vectors, metadata, collection, last, deleted,
          llm_client, redis, expiry, req, turns, age, documents, chunks_collection, drawn>>

(***************************************************************************)
(* Bounds of the model.                                                    *)
(***************************************************************************)
\* most records a store holds in the model
MaxRecords == 2

(***************************************************************************)
(* Python values.                                                          *)
(***************************************************************************)
None == [t |-> "none", v |-> <<>>]
Str(s) == [t |-> "str", v |-> s]
Dict(d) == [t |-> "dict", v |-> d]
List(l) == [t |-> "list", v |-> l]

\* bool(x) for an Optional[dict] / Optional[list]: None and empty are falsy
Truthy(x) == x.t # "none" /\ DOMAIN x.v # {}

Min(a, b) == IF a <= b THEN a ELSE b
Max(a, b) == IF a >= b THEN a ELSE b
Range(s) == {s[i] : i \in DOMAIN s}

\* lst[:k]
SliceTo(s, k) ==
    IF k >= 0 THEN SubSeq(s, 1, Min(k, Len(s)))
    ELSE SubSeq(s, 1, Max(0, Len(s) + k))

\* zip(a, b, c): as long as the shortest
Zip3(a, b, c) ==
    [i \in 1..Min(Len(a), Min(Len(b), Len(c))) |-> <<a[i], b[i], c[i]>>]

(***************************************************************************)
(* dict: an insertion-ordered sequence of <<key, value>>.                  *)
(***************************************************************************)
KeySet(d) == {d[i][1] : i \in DOMAIN d}
DictHas(d, k) == k \in KeySet(d)
\* d.get(k, default)
DictGet(d, k, default) ==
    IF DictHas(d, k) THEN d[CHOOSE i \in DOMAIN d : d[i][1] = k][2] ELSE default
\* d[k] = v : an existing key keeps its place, a new key goes last
DictSet(d, k, v) ==
    IF DictHas(d, k)
    THEN [i \in DOMAIN d |-> IF d[i][1] = k THEN <<k, v>> ELSE d[i]]
    ELSE Append(d, <<k, v>>)
\* d.pop(k, None)
DictPop(d, k) == SelectSeq(d, LAMBDA e : e[1] # k)

\* payload.get(k): None when the key is absent
MetaGet(meta, k) == IF k \in DOMAIN meta THEN meta[k] ELSE None

(***************************************************************************)
(* sklearn cosine_similarity on two row vectors, kept exact: the value is  *)
(* num / sqrt(den). A zero vector normalises to itself, so its similarity  *)
(* to anything is 0.                                                       *)
(***************************************************************************)
RECURSIVE Dot(_, _)
Dot(a, b) == IF Len(a) = 0 THEN 0 ELSE a[1] * b[1] + Dot(Tail(a), Tail(b))

cosine_similarity(q, x) ==
    LET nq == Dot(q, q)
        nx == Dot(x, x)
    IN IF nq = 0 \/ nx = 0 THEN [num |-> 0, den |-> 1]
       ELSE [num |-> Dot(q, x), den |-> nq * nx]

Sgn(n) == IF n > 0 THEN 1 ELSE IF n < 0 THEN -1 ELSE 0
\* a > b for two similarities
SimGreater(a, b) ==
    Sgn(a.num) * a.num * a.num * b.den > Sgn(b.num) * b.num * b.num * a.den
SimGeq(a, b) == ~SimGreater(b, a)

\* a sort that leaves the list in insertion order
InsertUnsorted(sorted, x) == Append(sorted, x)

\* list.sort(key=lambda x: x[1], reverse=True): stable, descending
InsertByScore(sorted, x) ==
    LET before == {i \in DOMAIN sorted : SimGeq(sorted[i][2], x[2])}
        n == Cardinality(before)
    IN SubSeq(sorted, 1, n) \o <<x>> \o SubSeq(sorted, n + 1, Len(sorted))

RECURSIVE SortByScoreDesc(_)
SortByScoreDesc(s) ==
    IF Len(s) = 0 THEN <<>>
    ELSE InsertByScore(SortByScoreDesc(SubSeq(s, 1, Len(s) - 1)), s[Len(s)])

(***************************************************************************)
(* str: a sequence of one-character strings.                               *)
(***************************************************************************)
UpperCase ==
    <<"A","B","C","D","E","F","G","H","I","J","K","L","M","N","O","P","Q","R","S","T","U",
      "V","W","X","Y","Z">>
LowerCase ==
    <<"a","b","c","d","e","f","g","h","i","j","k","l","m","n","o","p","q","r","s","t","u",
      "v","w","x","y","z">>
Digits == <<"0","1","2","3","4","5","6","7","8","9">>

LetterIndex(alphabet, c) == CHOOSE i \in DOMAIN alphabet : alphabet[i] = c
LowerChar(c) ==
    IF c \in Range(UpperCase) THEN LowerCase[LetterIndex(UpperCase, c)] ELSE c
UpperChar(c) ==
    IF c \in Range(LowerCase) THEN UpperCase[LetterIndex(LowerCase, c)] ELSE c
IsLetter(c) == c \in Range(UpperCase) \cup Range(LowerCase)
IsSpace(c) == c \in {" ", "\n", "\t", "\r"}

\* s.lower()
Lower(s) == [i \in DOMAIN s |-> LowerChar(s[i])]

\* s.title(): a letter after a non-letter is upper-cased, every other one lower-cased
Title(s) ==
    [i \in DOMAIN s |->
        IF i = 1 \/ ~IsLetter(s[IF i = 1 THEN 1 ELSE i - 1])
        THEN UpperChar(s[i]) ELSE LowerChar(s[i])]

\* k in s
Contains(s, k) == \E i \in 0..(Len(s) - Len(k)) : SubSeq(s, i + 1, i + Len(k)) = k

\* s.split(): the maximal runs of non-whitespace
RECURSIVE SplitWords(_, _, _)
SplitWords(s, word, words) ==
    IF Len(s) = 0 THEN (IF Len(word) = 0 THEN words ELSE Append(words, word))
    ELSE IF IsSpace(Head(s))
         THEN SplitWords(Tail(s), <<>>, IF Len(word) = 0 THEN words ELSE Append(words, word))
         ELSE SplitWords(Tail(s), Append(word, Head(s)), words)
Split(s) == SplitWords(s, <<>>, <<>>)

\* re.split(r'[.!?]+', s): the pieces between runs of terminators, empty ones kept
IsTerminator(c) == c \in {".", "!", "?"}
RECURSIVE SplitSentences(_, _, _, _)
SplitSentences(s, piece, pieces, in_run) ==
    IF Len(s) = 0 THEN Append(pieces, piece)
    ELSE IF IsTerminator(Head(s))
         THEN IF in_run THEN SplitSentences(Tail(s), piece, pieces, TRUE)
              ELSE SplitSentences(Tail(s), <<>>, Append(pieces, piece), TRUE)
         ELSE SplitSentences(Tail(s), Append(piece, Head(s)), pieces, FALSE)
ReSplitTerminators(s) == SplitSentences(s, <<>>, <<>>, FALSE)

\* s.strip()
RECURSIVE LStrip(_)
LStrip(s) == IF Len(s) > 0 /\ IsSpace(Head(s)) THEN LStrip(Tail(s)) ELSE s
RECURSIVE RStrip(_)
RStrip(s) ==
    IF Len(s) > 0 /\ IsSpace(s[Len(s)]) THEN RStrip(SubSeq(s, 1, Len(s) - 1)) ELSE s
Strip(s) == RStrip(LStrip(s))

\* sep.join(parts)
RECURSIVE Join(_, _)
Join(sep, parts) ==
    IF Len(parts) = 0 THEN <<>>
    ELSE IF Len(parts) = 1 THEN parts[1]
    ELSE parts[1] \o sep \o Join(sep, Tail(parts))

\* f"{similarity:.3f}" of num / sqrt(den), a value of [-1, 1]
Thousandths(sim) ==
    CHOOSE n \in 0..1000 :
        /\ 4000000 * sim.num * sim.num < (2 * n + 1) * (2 * n + 1) * sim.den
        /\ n = 0 \/ (2 * n - 1) * (2 * n - 1) * sim.den <= 4000000 * sim.num * sim.num
FormatSimilarity(sim) ==
    LET n == Thousandths(sim)
    IN (IF sim.num < 0 THEN <<"-">> ELSE <<>>)
       \o <<Digits[(n \div 1000) + 1], ".", Digits[((n \div 100) % 10) + 1],
            Digits[((n \div 10) % 10) + 1], Digits[(n % 10) + 1]>>

\* str(chunk_id) of the ids of the model
IdStr(i) == IF i < 0 THEN <<"-", Digits[(-i) + 1]>> ELSE <<Digits[i + 1]>>

(***************************************************************************)
(* InMemoryVectorStore                                                     *)
(***************************************************************************)
EmptyDict == [k \in {} |-> None]

\* for vector_id, vector, meta in zip(ids, vectors, metadata): store both
RECURSIVE StoreEach(_, _, _)
StoreEach(vs, ms, triples) ==
    IF Len(triples) = 0 THEN [vectors |-> vs, metadata |-> ms]
    ELSE LET e == Head(triples)
         IN StoreEach(DictSet(vs, e[1], e[2]), DictSet(ms, e[1], e[3]), Tail(triples))

\* add_vectors that stores the vectors and blanks every payload value
AddWithoutPayloads(vs, ms, vlist, mlist, ids) ==
    LET blank == [i \in DOMAIN mlist |-> [k \in DOMAIN mlist[i] |-> None]]
        st == StoreEach(vs, ms, Zip3(ids, vlist, blank))
    IN [vectors |-> st.vectors, metadata |-> st.metadata,
        out |-> [kind |-> "return", value |-> ids]]

\* InMemoryVectorStore.add_vectors, with ids already generated when None was given
InMemoryAddVectors(vs, ms, vlist, mlist, ids) ==
    LET st == StoreEach(vs, ms, Zip3(ids, vlist, mlist))
    IN [vectors |-> st.vectors, metadata |-> st.metadata,
        out |-> [kind |-> "return", value |-> ids]]

\* all(meta.get(k) == v for k, v in filter_dict.items())
FilterMatches(meta, fd) == \A k \in DOMAIN fd : MetaGet(meta, k) = fd[k]

\* the records the loop of search does not skip
IsCandidate(ms, vector_id, filter_dict) ==
    Truthy(filter_dict) => FilterMatches(DictGet(ms, vector_id, EmptyDict), filter_dict.v)

Candidates(vs, ms, filter_dict) ==
    SelectSeq(vs, LAMBDA e : IsCandidate(ms, e[1], filter_dict))

\* InMemoryVectorStore.search: numpy raises ValueError when the query and a
\* candidate differ in dimension
InMemorySearch(vs, ms, query_vector, top_k, filter_dict) ==
    IF Len(vs) = 0 THEN [kind |-> "return", value |-> <<>>]
    ELSE LET cand == Candidates(vs, ms, filter_dict)
             similarities ==
                 [i \in DOMAIN cand |->
                     <<cand[i][1], cosine_similarity(query_vector, cand[i][2]),
                       DictGet(ms, cand[i][1], EmptyDict)>>]
         IN IF \E i \in DOMAIN cand : Len(cand[i][2]) # Len(query_vector)
            THEN [kind |-> "raise", error |-> "ValueError"]
            ELSE [kind |-> "return",
                  value |-> SliceTo(SortByScoreDesc(similarities), top_k)]

RECURSIVE PopEach(_, _)
PopEach(d, ids) == IF Len(ids) = 0 THEN d ELSE PopEach(DictPop(d, Head(ids)), Tail(ids))

\* a delete that forgets the vector map
DeleteKeepsVectors(vs, ms, ids) ==
    [vectors |-> vs, metadata |-> PopEach(ms, ids),
     out |-> [kind |-> "return", value |-> TRUE]]

\* InMemoryVectorStore.delete_vectors
InMemoryDeleteVectors(vs, ms, ids) ==
    [vectors |-> PopEach(vs, ids), metadata |-> PopEach(ms, ids),
     out |-> [kind |-> "return", value |-> TRUE]]

(***************************************************************************)
(* QdrantVectorStore. The remote collection is [exists, size, points]; a   *)
(* call to it either fails (network, timeout, a request the server         *)
(* rejects) or takes effect. The server ranks by cosine similarity.        *)
(***************************************************************************)
NoCollection == [exists |-> FALSE, size |-> 0, points |-> <<>>]

\* QdrantVectorStore._ensure_collection: any error is printed and dropped
EnsureCollection(col, vector_size, ok) ==
    IF ok /\ ~col.exists
    THEN [exists |-> TRUE, size |-> vector_size, points |-> <<>>]
    ELSE col

\* the server refuses an upsert into a missing collection or of a wrong size
UpsertAccepted(col, points) ==
    col.exists /\ \A i \in DOMAIN points : Len(points[i][2]) = col.size

RECURSIVE UpsertEach(_, _)
UpsertEach(pts, points) ==
    IF Len(points) = 0 THEN pts
    ELSE LET e == Head(points)
         IN UpsertEach(DictSet(pts, e[1], [vector |-> e[2], payload |-> e[3]]),
                       Tail(points))

\* QdrantVectorStore.add_vectors
QdrantAddVectors(col, vlist, mlist, ids, ensure_ok, upsert_ok) ==
    IF Len(vlist) = 0 THEN [collection |-> col, out |-> [kind |-> "return", value |-> <<>>]]
    ELSE LET c1 == EnsureCollection(col, Len(vlist[1]), ensure_ok)
             points == Zip3(ids, vlist, mlist)
         IN IF upsert_ok /\ UpsertAccepted(c1, points)
            THEN [collection |-> [c1 EXCEPT !.points = UpsertEach(@, points)],
                  out |-> [kind |-> "return", value |-> ids]]
            ELSE [collection |-> c1, out |-> [kind |-> "raise", error |-> "UpsertError"]]

\* what client.search answers when it answers
RemoteHits(col, query_vector, limit, filter_dict) ==
    LET cand == SelectSeq(col.points,
                    LAMBDA e : Truthy(filter_dict) => FilterMatches(e[2].payload, filter_dict.v))
        scored == [i \in DOMAIN cand |->
                     <<cand[i][1], cosine_similarity(query_vector, cand[i][2].vector),
                       cand[i][2].payload>>]
    IN SliceTo(SortByScoreDesc(scored), limit)

SearchAccepted(col, query_vector, limit) ==
    col.exists /\ Len(query_vector) = col.size /\ limit >= 0

\* QdrantVectorStore.search: except Exception: print, return []
QdrantSearch(col, query_vector, top_k, filter_dict, ok) ==
    IF ok /\ SearchAccepted(col, query_vector, top_k)
    THEN [kind |-> "return", value |-> RemoteHits(col, query_vector, top_k, filter_dict)]
    ELSE [kind |-> "return", value |-> <<>>]

\* QdrantVectorStore.delete_vectors: except Exception: print, return False
QdrantDeleteVectors(col, ids, ok) ==
    IF ok /\ col.exists
    THEN [collection |-> [col EXCEPT !.points = PopEach(@, ids)],
          out |-> [kind |-> "return", value |-> TRUE]]
    ELSE [collection |-> col, out |-> [kind |-> "return", value |-> FALSE]]

(***************************************************************************)
(* The inputs of the vector-store calls.                                   *)
(***************************************************************************)
\* "Rag is fun. It is new."
TextRag ==
    <<"R","a","g"," ","i","s"," ","f","u","n","."," ","I","t"," ","i","s"," ","n","e","w",".">>
\* "Cats nap."
TextCat ==
    <<"C","a","t","s"," ","n","a","p",".">>
\* "d1"
DocOne == <<"d","1">>
\* "d2"
DocTwo == <<"d","2">>

PayloadRag == [text |-> Str(TextRag), document_id |-> Str(DocOne)]
PayloadCat == [text |-> Str(TextCat), document_id |-> Str(DocTwo)]
\* a payload without a document_id
PayloadBare == [text |-> Str(TextCat)]

\* the query vectors: two of dimension 2, one of dimension 1
QueryVecs == {<<1, 0>>, <<0, 1>>, <<1>>}
TopKs == {0, 1, 2}
Filters == {None, Dict(EmptyDict), Dict([document_id |-> Str(DocOne)]),
            Dict([document_id |-> None])}

\* ids a caller passes, and the uuid4 values a call may draw
CallerIds == {1}
UuidPool == {-1, -2}

\* the records callers add: vectors of dimension 2 and one of dimension 1
Records == {<<<<1, 0>>, PayloadRag>>, <<<<1, 1>>, PayloadBare>>, <<<<1>>, PayloadCat>>}

AddInputs ==
    {[vectors |-> <<x[1]>>, metadata |-> <<x[2]>>, ids |-> i] :
        x \in Records, i \in {None} \cup {List(<<c>>) : c \in CallerIds}}
    \cup {[vectors |-> <<>>, metadata |-> <<>>, ids |-> None],
          \* two records in one call
          [vectors |-> <<<<1, 1>>, <<1, 0>>>>, metadata |-> <<PayloadBare, PayloadRag>>,
           ids |-> None],
          \* a payload list shorter than the vector list
          [vectors |-> <<<<1, 0>>, <<1, 1>>>>, metadata |-> <<PayloadRag>>, ids |-> None],
          \* an id list shorter than the vector list
          [vectors |-> <<<<1, 1>>, <<1, 0>>>>, metadata |-> <<PayloadBare, PayloadRag>>,
           ids |-> List(<<1>>)]}

DeleteInputs == {<<>>, <<1>>, <<-1>>, <<-2>>, <<1, -1>>}

\* [str(uuid.uuid4()) for _ in vectors]: ids no record of the store carries
FreshIds(taken, n) ==
    {ids \in UNION {[1..m -> UuidPool \ taken] : m \in {n}} :
        \A i, j \in 1..n : i # j => ids[i] # ids[j]}

StoreKeys ==
    IF vector_store_type = "memory" THEN KeySet(vectors) ELSE KeySet(collection.points)

(***************************************************************************)
(* The vector-store calls, as get_vector_store() dispatches them.          *)
(***************************************************************************)
AddCall(inp, ids, ensure_ok, upsert_ok) ==
    IF vector_store_type = "memory"
    THEN LET r == InMemoryAddVectors(vectors, metadata, inp.vectors, inp.metadata, ids)
         IN [vectors |-> r.vectors, metadata |-> r.metadata, collection |-> collection,
             out |-> r.out]
    ELSE LET r == QdrantAddVectors(collection, inp.vectors, inp.metadata, ids,
                                   ensure_ok, upsert_ok)
         IN [vectors |-> vectors, metadata |-> metadata, collection |-> r.collection,
             out |-> r.out]

AddVectors ==
    \E inp \in AddInputs, ensure_ok \in BOOLEAN, upsert_ok \in BOOLEAN :
      \E ids \in (IF inp.ids = None THEN FreshIds(StoreKeys, Len(inp.vectors))
                  ELSE {inp.ids.v}) :
        LET r == AddCall(inp, ids, ensure_ok, upsert_ok)
            stored == KeySet(r.vectors) \cup KeySet(r.collection.points)
        IN /\ vector_store_type = "memory" => ensure_ok /\ upsert_ok
           /\ Len(r.vectors) <= MaxRecords
           /\ Len(r.collection.points) <= MaxRecords
           /\ vectors' = r.vectors
           /\ metadata' = r.metadata
           /\ collection' = r.collection
           /\ deleted' = {d \in deleted : d[1] \notin stored}
           /\ last' = [op |-> "add", arg |-> inp, backend_ok |-> ensure_ok /\ upsert_ok,
                       out |-> r.out]
           /\ UNCHANGED <<vector_store_type, queryVars, memoryVars, docVars>>

SearchCall(query_vector, top_k, filter_dict, ok) ==
    IF vector_store_type = "memory"
    THEN InMemorySearch(vectors, metadata, query_vector, top_k, filter_dict)
    ELSE QdrantSearch(collection, query_vector, top_k, filter_dict, ok)

Search ==
    \E q \in QueryVecs, k \in TopKs, f \in Filters, ok \in BOOLEAN :
        /\ vector_store_type = "memory" => ok
        /\ last' = [op |-> "search",
                    arg |-> [query_vector |-> q, top_k |-> k, filter_dict |-> f],
                    backend_ok |-> ok,
                    out |-> SearchCall(q, k, f, ok)]
        /\ UNCHANGED <<vector_store_type, vectors, metadata, collection, deleted, queryVars,
                     memoryVars, docVars>>

DeleteCall(ids, ok) ==
    IF vector_store_type = "memory"
    THEN LET r == InMemoryDeleteVectors(vectors, metadata, ids)
         IN [vectors |-> r.vectors, metadata |-> r.metadata, collection |-> collection,
             out |-> r.out]
    ELSE LET r == QdrantDeleteVectors(collection, ids, ok)
         IN [vectors |-> vectors, metadata |-> metadata, collection |-> r.collection,
             out |-> r.out]

DeleteVectors ==
    \E ids \in DeleteInputs, ok \in BOOLEAN :
        LET r == DeleteCall(ids, ok)
        IN /\ vector_store_type = "memory" => ok
           /\ vectors' = r.vectors
           /\ metadata' = r.metadata
           /\ collection' = r.collection
           /\ deleted' = {d \in deleted : d[1] \notin Range(ids) \cap StoreKeys}
                         \cup {<<i, r.out.value>> : i \in Range(ids) \cap StoreKeys}
           /\ last' = [op |-> "delete", arg |-> [ids |-> ids], backend_ok |-> ok,
                       out |-> r.out]
           /\ UNCHANGED <<vector_store_type, queryVars, memoryVars, docVars>>

(***************************************************************************)
(* ChatMemoryService over redis. A list value is a sequence, newest first; *)
(* a key without elements does not exist.                                  *)
(***************************************************************************)
\* ChatMemoryService.__init__(ttl=3600)
ttl == 3600
NoExpiry == -1
\* get_conversation_context(max_turns=5)
DefaultMaxTurns == 5

IntVal(n) == [t |-> "int", v |-> n]
Reverse(s) == [i \in DOMAIN s |-> s[Len(s) + 1 - i]]

\* json.dumps of a dict of str and int values: the members, in the dict's order
JsonEncode(x) == IF x.t = "int" THEN [j |-> "number", v |-> x.v] ELSE [j |-> "string", v |-> x.v]
JsonDecode(x) == IF x.j = "number" THEN IntVal(x.v) ELSE Str(x.v)
json_dumps(message) == [i \in DOMAIN message |-> <<message[i][1], JsonEncode(message[i][2])>>]
json_loads(text) == [i \in DOMAIN text |-> <<text[i][1], JsonDecode(text[i][2])>>]

\* redis LPUSH key value
LPush(list, x) == <<x>> \o list
\* redis LRANGE key start stop: inclusive, a negative index counts from the end
LRange(list, start, stop) ==
    LET n == Len(list)
        first == IF start < 0 THEN Max(n + start, 0) ELSE start
        final == IF stop < 0 THEN n + stop ELSE Min(stop, n - 1)
    IN IF first > final THEN <<>> ELSE SubSeq(list, first + 1, final + 1)

\* ChatMemoryService.get_chat_history
get_chat_history(list, limit) ==
    LET messages == LRange(list, 0, limit - 1)
    IN [i \in DOMAIN messages |-> json_loads(Reverse(messages)[i])]

\* a clear that reports success whether or not a key was deleted
ClearReportsSuccess(list) == [list |-> <<>>, value |-> TRUE]

\* ChatMemoryService.clear_chat_history: redis DELETE returns the number of keys
\* it removed
clear_chat_history(list) ==
    LET result == IF list = <<>> THEN 0 ELSE 1
    IN [list |-> <<>>, value |-> result > 0]

\* ChatMemoryService.get_conversation_context
get_conversation_context(list, max_turns) ==
    LET history == get_chat_history(list, max_turns * 2)
        context_parts ==
            [i \in DOMAIN history |->
                Title(DictGet(history[i], "role", Str(<<"u","s","e","r">>)).v)
                \o <<":", " ">> \o DictGet(history[i], "content", Str(<<>>)).v]
    IN Join(<<"\n">>, context_parts)

(***************************************************************************)
(* RAGEngine                                                               *)
(***************************************************************************)
\* "I don't have enough information to answer your question."
NoInformation ==
    <<"I"," ","d","o","n","'","t"," ","h","a","v","e"," ","e","n","o","u","g","h"," ","i","n",
      "f","o","r","m","a","t","i","o","n"," ","t","o"," ","a","n","s","w","e","r"," ","y","o",
      "u","r"," ","q","u","e","s","t","i","o","n",".">>
\* "Based on the available information: "
BasedOn ==
    <<"B","a","s","e","d"," ","o","n"," ","t","h","e"," ","a","v","a","i","l","a","b","l","e",
      " ","i","n","f","o","r","m","a","t","i","o","n",":"," ">>
\* "..."
Ellipsis ==
    <<".",".",".">>
\* "Error generating response: "
ErrorGenerating ==
    <<"E","r","r","o","r"," ","g","e","n","e","r","a","t","i","n","g"," ","r","e","s","p","o",
      "n","s","e",":"," ">>
\* "I can help you schedule an interview. Please provide your name, email, preferred date, and time."
BookingPrompt ==
    <<"I"," ","c","a","n"," ","h","e","l","p"," ","y","o","u"," ","s","c","h","e","d","u","l",
      "e"," ","a","n"," ","i","n","t","e","r","v","i","e","w","."," ","P","l","e","a","s","e",
      " ","p","r","o","v","i","d","e"," ","y","o","u","r"," ","n","a","m","e",","," ","e","m",
      "a","i","l",","," ","p","r","e","f","e","r","r","e","d"," ","d","a","t","e",","," ","a",
      "n","d"," ","t","i","m","e",".">>
\* "[Similarity: "
SimilarityOpen ==
    <<"[","S","i","m","i","l","a","r","i","t","y",":"," ">>
\* "] "
SimilarityClose ==
    <<"]"," ">>
\* "what is rag"
QueryRag ==
    <<"w","h","a","t"," ","i","s"," ","r","a","g">>
\* "Schedule an interview"
QueryBooking ==
    <<"S","c","h","e","d","u","l","e"," ","a","n"," ","i","n","t","e","r","v","i","e","w">>
\* "dogs"
QueryDogs ==
    <<"d","o","g","s">>
\* "Meetings"
QueryMeetings ==
    <<"M","e","e","t","i","n","g","s">>
\* "An answer."
LlmText ==
    <<"A","n"," ","a","n","s","w","e","r",".">>
\* "timeout"
LlmError ==
    <<"t","i","m","e","o","u","t">>
\* "user"
RoleUser ==
    <<"u","s","e","r">>
\* "assistant"
RoleAssistant ==
    <<"a","s","s","i","s","t","a","n","t">>
\* "now"
Now ==
    <<"n","o","w">>
\* response.citations of a chat answer
LlmCitations == <<>>
\* _generate_simple_response: relevant_sentences[:2]
MaxSentences == 2
\* _generate_simple_response: context_texts[0][:200]
ExcerptChars == 200
\* generate_response_with_citations: chunk_text[:500]
SnippetChars == 500

booking_keywords ==
    <<<<"s","c","h","e","d","u","l","e">>,
      <<"b","o","o","k">>,
      <<"i","n","t","e","r","v","i","e","w">>,
      <<"a","p","p","o","i","n","t","m","e","n","t">>,
      <<"m","e","e","t","i","n","g">>,
      <<"a","v","a","i","l","a","b","l","e">>,
      <<"t","i","m","e">>,
      <<"d","a","t","e">>,
      <<"c","a","l","e","n","d","a","r">>,
      <<"w","h","e","n"," ","c","a","n">>>>

\* a detection that forgets to lower-case the query
DetectCaseSensitive(query) ==
    \E i \in DOMAIN booking_keywords : Contains(query, booking_keywords[i])

\* RAGEngine._detect_booking_intent
_detect_booking_intent(query) ==
    LET query_lower == Lower(query)
    IN \E i \in DOMAIN booking_keywords : Contains(query_lower, booking_keywords[i])

\* metadata.get('text', f"Chunk {chunk_id}")
ChunkText(chunk) ==
    IF "text" \in DOMAIN chunk[3] THEN chunk[3].text.v
    ELSE <<"C","h","u","n","k"," ">> \o IdStr(chunk[1])

\* RAGEngine._generate_simple_response
_generate_simple_response(query, context_texts) ==
    IF Len(context_texts) = 0 THEN NoInformation
    ELSE
      LET query_words == Range(Split(Lower(query)))
          Matches(text) == Cardinality(query_words \cap Range(Split(Lower(text))))
          max_matches ==
              CHOOSE m \in {Matches(context_texts[i]) : i \in DOMAIN context_texts} :
                  \A i \in DOMAIN context_texts : Matches(context_texts[i]) <= m
          \* matches > max_matches: the first chunk that reaches the maximum
          best == CHOOSE i \in DOMAIN context_texts :
                      /\ Matches(context_texts[i]) = max_matches
                      /\ \A j \in 1..(i - 1) : Matches(context_texts[j]) < max_matches
          sentences == ReSplitTerminators(context_texts[best])
          relevant_sentences ==
              LET hit == SelectSeq(sentences,
                             LAMBDA s : query_words \cap Range(Split(Lower(s))) # {})
              IN [i \in DOMAIN hit |-> Strip(hit[i])]
          excerpt == BasedOn \o SliceTo(context_texts[1], ExcerptChars) \o Ellipsis
      IN IF max_matches > 0 /\ Len(relevant_sentences) > 0
         THEN Join(<<" ">>, SliceTo(relevant_sentences, MaxSentences))
         ELSE excerpt

\* generate_response: f"[Similarity: {similarity:.3f}] {chunk_text}"
ContextTexts(context_chunks) ==
    [i \in DOMAIN context_chunks |->
        SimilarityOpen \o FormatSimilarity(context_chunks[i][2]) \o SimilarityClose
        \o ChunkText(context_chunks[i])]

\* RAGEngine.generate_response; chat_ok: llm_client.chat answers
generate_response(query, context_chunks, llm, chat_ok) ==
    IF llm
    THEN IF chat_ok THEN Strip(LlmText) ELSE ErrorGenerating \o LlmError
    ELSE _generate_simple_response(query, ContextTexts(context_chunks))

\* the documents generate_response_with_citations hands to the model
CitationDocuments(context_chunks) ==
    [i \in DOMAIN context_chunks |->
        [title |-> <<"D","o","c","u","m","e","n","t"," ","C","h","u","n","k"," ">>
                   \o IdStr(context_chunks[i][1]),
         snippet |-> SliceTo(ChunkText(context_chunks[i]), SnippetChars),
         text |-> ChunkText(context_chunks[i]),
         url |-> <<"c","h","u","n","k",":","/","/">> \o IdStr(context_chunks[i][1]),
         similarity |-> context_chunks[i][2]]]

\* RAGEngine.generate_response_with_citations; chat_ok, retry_ok: the chat call
\* of the try block answers, the chat call of generate_response answers
generate_response_with_citations(query, context_chunks, llm, chat_ok, retry_ok) ==
    IF ~llm
    THEN [response |->
              _generate_simple_response(query,
                  [i \in DOMAIN context_chunks |->
                      IF "text" \in DOMAIN context_chunks[i][3]
                      THEN context_chunks[i][3].text.v ELSE <<>>]),
          citations |-> <<>>, documents |-> <<>>]
    ELSE IF chat_ok
    THEN [response |-> Strip(LlmText), citations |-> LlmCitations,
          documents |-> SliceTo(CitationDocuments(context_chunks), Len(context_chunks))]
    ELSE [response |-> generate_response(query, context_chunks, llm, retry_ok),
          citations |-> <<>>, documents |-> <<>>]

\* SentenceTransformer.encode: a fixed text -> vector map of one dimension
encode(text) ==
    IF text = QueryRag THEN <<1, 0>>
    ELSE IF text = QueryDogs THEN <<0, 1>>
    ELSE <<1, 1>>

Sessions == {"s1", "s2"}
Reqs == {1, 2}
Queries == {QueryRag, QueryBooking, QueryDogs, QueryMeetings}
QueryTopKs == {1, 5}

NoResult == [kind |-> "none"]
Idle == [pc |-> "idle", session_id |-> "", query |-> <<>>, top_k |-> 0,
         use_citations |-> FALSE, chat_history |-> <<>>, relevant_chunks |-> <<>>,
         response |-> <<>>, citations |-> <<>>, documents |-> <<>>,
         calls |-> {}, failed |-> {}, pushed |-> <<>>, result |-> NoResult]

\* an exception leaves process_chat_query
Raise(r, call, error) ==
    req' = [req EXCEPT ![r].pc = "done",
                       ![r].calls = @ \cup {call},
                       ![r].failed = @ \cup {call},
                       ![r].result = [kind |-> "raise", error |-> error]]

\* process_chat_query up to its first await: the booking check. The requests of
\* this specification are served one after the other.
Begin(r) ==
    \E s \in Sessions, q \in Queries, k \in QueryTopKs, c \in BOOLEAN :
        /\ req[r].pc = "idle"
        /\ \A o \in Reqs : o < r => req[o].pc = "gone"
        /\ IF _detect_booking_intent(q)
           THEN req' = [req EXCEPT ![r] =
                    [Idle EXCEPT !.pc = "done", !.session_id = s, !.query = q, !.top_k = k,
                                 !.use_citations = c,
                                 !.result = [kind |-> "return",
                                             value |-> [response |-> BookingPrompt,
                                                        intent |-> "booking",
                                                        requires_booking_info |-> TRUE,
                                                        retrieved_chunks |-> <<>>,
                                                        citations |-> <<>>,
                                                        documents |-> <<>>]]]]
           ELSE req' = [req EXCEPT ![r] =
                    [Idle EXCEPT !.pc = "context", !.session_id = s, !.query = q,
                                 !.top_k = k, !.use_citations = c]]
        /\ UNCHANGED <<storeVars, llm_client, redis, expiry, memoryVars, docVars>>

\* chat_history = await self.memory_service.get_conversation_context(session_id)
GetContext(r) ==
    \E ok \in BOOLEAN :
        /\ req[r].pc = "context"
        /\ IF ok
           THEN req' = [req EXCEPT ![r].pc = "retrieve",
                                   ![r].calls = @ \cup {"redis.lrange"},
                                   ![r].chat_history =
                                       get_conversation_context(redis[req[r].session_id],
                                                                DefaultMaxTurns)]
           ELSE Raise(r, "redis.lrange", "RedisError")
        /\ UNCHANGED <<storeVars, llm_client, redis, expiry, memoryVars, docVars>>

\* RAGEngine.retrieve_relevant_chunks
Retrieve(r) ==
    \E embed_ok \in BOOLEAN, search_ok \in BOOLEAN :
        /\ req[r].pc = "retrieve"
        /\ ~embed_ok => search_ok
        /\ vector_store_type = "memory" => search_ok
        /\ IF ~embed_ok THEN Raise(r, "embed", "EmbeddingError")
           ELSE LET query_vector == encode(req[r].query)
                    out == SearchCall(query_vector, req[r].top_k, None, search_ok)
                IN IF out.kind = "raise"
                   THEN req' = [req EXCEPT ![r].pc = "done",
                                           ![r].calls = @ \cup {"embed", "search"},
                                           ![r].failed = @ \cup {"search"},
                                           ![r].result = out]
                   ELSE req' = [req EXCEPT ![r].pc = "generate",
                                           ![r].calls = @ \cup {"embed", "search"},
                                           ![r].failed =
                                               IF search_ok THEN @ ELSE @ \cup {"search"},
                                           ![r].relevant_chunks = out.value]
        /\ UNCHANGED <<storeVars, llm_client, redis, expiry, memoryVars, docVars>>

\* the response of process_chat_query, with or without citations
Generate(r) ==
    \E chat_ok \in BOOLEAN, retry_ok \in BOOLEAN :
        LET q == req[r]
            cited == q.use_citations /\ llm_client
            data == generate_response_with_citations(q.query, q.relevant_chunks, llm_client,
                                                     chat_ok, retry_ok)
            plain == generate_response(q.query, q.relevant_chunks, llm_client, chat_ok)
        IN /\ q.pc = "generate"
           /\ ~llm_client => chat_ok /\ retry_ok
           /\ (chat_ok \/ ~cited) => retry_ok
           /\ req' = [req EXCEPT
                        ![r].pc = "push_user",
                        ![r].calls = IF llm_client THEN @ \cup {"llm.chat"} ELSE @,
                        ![r].failed = IF chat_ok THEN @ ELSE @ \cup {"llm.chat"},
                        ![r].response = IF cited THEN data.response ELSE plain,
                        ![r].citations = IF cited THEN data.citations ELSE <<>>,
                        ![r].documents = IF cited THEN data.documents ELSE <<>>]
           /\ UNCHANGED <<storeVars, llm_client, redis, expiry, memoryVars, docVars>>

UserTurn(q) ==
    <<<<"role", Str(RoleUser)>>, <<"content", Str(q.query)>>, <<"timestamp", Str(Now)>>>>
AssistantTurn(q) ==
    <<<<"role", Str(RoleAssistant)>>, <<"content", Str(q.response)>>,
      <<"timestamp", Str(Now)>>, <<"retrieved_chunks", IntVal(Len(q.relevant_chunks))>>>>

\* save_message: await self.redis.lpush(key, message_json)
Push(r, at, next, message) ==
    \E ok \in BOOLEAN :
        /\ req[r].pc = at
        /\ IF ok
           THEN /\ redis' = [redis EXCEPT ![req[r].session_id] = LPush(@, json_dumps(message))]
                /\ turns' = [turns EXCEPT ![req[r].session_id] = Append(@, message)]
                /\ age' = [age EXCEPT ![req[r].session_id] = 0]
                /\ req' = [req EXCEPT ![r].pc = next,
                                      ![r].calls = @ \cup {"redis.lpush"},
                                      ![r].pushed = Append(@, message)]
           ELSE /\ Raise(r, "redis.lpush", "RedisError")
                /\ UNCHANGED <<redis, memoryVars>>
        /\ UNCHANGED <<storeVars, llm_client, expiry, docVars>>

\* save_message: await self.redis.expire(key, self.ttl)
Expire(r, at, next) ==
    \E ok \in BOOLEAN :
        /\ req[r].pc = at
        /\ IF ok
           THEN /\ expiry' = [expiry EXCEPT ![req[r].session_id] = ttl]
                /\ req' = [req EXCEPT ![r].pc = next,
                                      ![r].calls = @ \cup {"redis.expire"}]
           ELSE /\ Raise(r, "redis.expire", "RedisError")
                /\ UNCHANGED expiry
        /\ UNCHANGED <<storeVars, llm_client, redis, memoryVars, docVars>>

PushUser(r) == Push(r, "push_user", "expire_user", UserTurn(req[r]))
ExpireUser(r) == Expire(r, "expire_user", "push_assistant")
PushAssistant(r) == Push(r, "push_assistant", "expire_assistant", AssistantTurn(req[r]))
ExpireAssistant(r) == Expire(r, "expire_assistant", "return")

\* the dict process_chat_query returns
Return(r) ==
    /\ req[r].pc = "return"
    /\ req' = [req EXCEPT
                 ![r].pc = "done",
                 ![r].result =
                     [kind |-> "return",
                      value |-> [response |-> req[r].response,
                                 intent |-> "general_query",
                                 retrieved_chunks |->
                                     [i \in DOMAIN req[r].relevant_chunks |->
                                         [chunk_id |-> req[r].relevant_chunks[i][1],
                                          similarity |-> req[r].relevant_chunks[i][2],
                                          metadata |-> req[r].relevant_chunks[i][3]]],
                                 citations |-> req[r].citations,
                                 documents |-> req[r].documents]]]
    /\ UNCHANGED <<storeVars, llm_client, redis, expiry, memoryVars, docVars>>

\* the caller has the result (or the exception): the coroutine is gone
Finish(r) ==
    /\ req[r].pc = "done"
    /\ req' = [req EXCEPT ![r] = [Idle EXCEPT !.pc = "gone"]]
    /\ UNCHANGED <<storeVars, llm_client, redis, expiry, memoryVars, docVars>>

NoCall == [op |-> "none", arg |-> <<>>, backend_ok |-> TRUE,
           out |-> [kind |-> "return", value |-> <<>>]]

\* get_vector_store() on a fresh process: an empty store of the configured type
InitStore ==
    /\ vector_store_type \in {"memory", "qdrant"}
    /\ vectors = <<>>
    /\ metadata = <<>>
    /\ collection = NoCollection
    /\ last = NoCall
    /\ deleted = {}
    /\ llm_client = FALSE
    /\ redis = [s \in Sessions |-> <<>>]
    /\ expiry = [s \in Sessions |-> NoExpiry]
    /\ turns = [s \in Sessions |-> <<>>]
    /\ age = [s \in Sessions |-> ttl]
    /\ documents = {}
    /\ chunks_collection = <<>>
    /\ drawn = NoneDrawn
    /\ req = [r \in Reqs |-> Idle]

NextStore == AddVectors \/ Search \/ DeleteVectors

SpecStore == InitStore /\ [][NextStore]_vars

(***************************************************************************)
(* The query pipeline: a RAGEngine over a store that earlier add_vectors   *)
(* calls filled, serving process_chat_query coroutines.                    *)
(***************************************************************************)
SeedEmpty == <<>>
\* two records of the query's dimension, the better match for "what is rag" last
SeedDocs == <<[vectors |-> <<<<1, 1>>>>, metadata |-> <<PayloadBare>>, ids |-> <<-1>>],
              [vectors |-> <<<<1, 0>>>>, metadata |-> <<PayloadRag>>, ids |-> <<1>>]>>
\* a record of another dimension than the query embeddings
SeedOtherDim == <<[vectors |-> <<<<1>>>>, metadata |-> <<PayloadCat>>, ids |-> <<1>>]>>
Seeds == {SeedEmpty, SeedDocs, SeedOtherDim}

RECURSIVE SeedMemory(_, _, _)
SeedMemory(vs, ms, adds) ==
    IF Len(adds) = 0 THEN [vectors |-> vs, metadata |-> ms]
    ELSE LET r == InMemoryAddVectors(vs, ms, Head(adds).vectors, Head(adds).metadata,
                                     Head(adds).ids)
         IN SeedMemory(r.vectors, r.metadata, Tail(adds))

RECURSIVE SeedQdrant(_, _)
SeedQdrant(col, adds) ==
    IF Len(adds) = 0 THEN col
    ELSE SeedQdrant(QdrantAddVectors(col, Head(adds).vectors, Head(adds).metadata,
                                     Head(adds).ids, TRUE, TRUE).collection, Tail(adds))

Init ==
    /\ vector_store_type \in {"memory", "qdrant"}
    /\ \E seed \in Seeds :
          IF vector_store_type = "memory"
          THEN /\ vectors = SeedMemory(<<>>, <<>>, seed).vectors
               /\ metadata = SeedMemory(<<>>, <<>>, seed).metadata
               /\ collection = NoCollection
          ELSE /\ vectors = <<>>
               /\ metadata = <<>>
               /\ collection = SeedQdrant(NoCollection, seed)
    /\ last = NoCall
    /\ deleted = {}
    /\ llm_client \in BOOLEAN
    /\ redis = [s \in Sessions |-> <<>>]
    /\ expiry = [s \in Sessions |-> NoExpiry]
    /\ turns = [s \in Sessions |-> <<>>]
    /\ age = [s \in Sessions |-> ttl]
    /\ documents = {}
    /\ chunks_collection = <<>>
    /\ drawn = NoneDrawn
    /\ req = [r \in Reqs |-> Idle]

Next ==
    \E r \in Reqs :
        \/ Begin(r)
        \/ GetContext(r)
        \/ Retrieve(r)
        \/ Generate(r)
        \/ PushUser(r)
        \/ ExpireUser(r)
        \/ PushAssistant(r)
        \/ ExpireAssistant(r)
        \/ Return(r)
        \/ Finish(r)

Spec == Init /\ [][Next]_vars

(***************************************************************************)
(* Two process_chat_query calls in flight at once: the event loop runs a   *)
(* call up to its next await and may then go on with either call.          *)
(***************************************************************************)
ConcurrentQueries == {QueryRag, QueryDogs}

\* process_chat_query up to its first await, whatever the other call is doing
BeginConcurrent(r) ==
    \E s \in Sessions, q \in ConcurrentQueries :
        /\ req[r].pc = "idle"
        /\ ~_detect_booking_intent(q)
        /\ req' = [req EXCEPT ![r] =
                     [Idle EXCEPT !.pc = "context", !.session_id = s, !.query = q,
                                  !.top_k = 1, !.use_citations = FALSE]]
        /\ UNCHANGED <<storeVars, llm_client, redis, expiry, memoryVars, docVars>>

InitConcurrent ==
    /\ Init
    /\ vector_store_type = "memory"
    /\ ~llm_client

NextConcurrent ==
    \E r \in Reqs :
        \/ BeginConcurrent(r)
        \/ GetContext(r)
        \/ Retrieve(r)
        \/ Generate(r)
        \/ PushUser(r)
        \/ ExpireUser(r)
        \/ PushAssistant(r)
        \/ ExpireAssistant(r)
        \/ Return(r)
        \/ Finish(r)

SpecConcurrent == InitConcurrent /\ [][NextConcurrent]_vars

(***************************************************************************)
(* The chat memory service on its own: one client calls save_message,      *)
(* get_chat_history and clear_chat_history, one call after the other,      *)
(* while time passes in the session store. save_message is two awaited     *)
(* redis commands, and time may pass between them.                         *)
(***************************************************************************)
MaxStored == 2

\* the time that passes in one step of the store's clock
TickSeconds == ttl \div 2

MemoryMessages ==
    {UserTurn([query |-> QueryDogs]),
     AssistantTurn([response |-> LlmText, relevant_chunks |-> <<>>])}
Limits == {0, 1, 2, 10}

MemoryCall(op, arg, ok, out) == [op |-> op, arg |-> arg, backend_ok |-> ok, out |-> out]
Pending == [kind |-> "pending"]
RedisError == [kind |-> "raise", error |-> "RedisError"]
Returns(value) == [kind |-> "return", value |-> value]

\* save_message up to the end of: await self.redis.lpush(key, message_json)
SaveMessagePush ==
    \E s \in Sessions, message \in MemoryMessages, ok \in BOOLEAN :
        LET arg == [session_id |-> s, message |-> message]
        IN /\ last.out # Pending
           /\ Len(redis[s]) < MaxStored
           /\ IF ok
              THEN /\ redis' = [redis EXCEPT ![s] = LPush(@, json_dumps(message))]
                   /\ turns' = [turns EXCEPT ![s] = Append(@, message)]
                   /\ age' = [age EXCEPT ![s] = 0]
                   /\ last' = MemoryCall("save_message", arg, TRUE, Pending)
              ELSE /\ last' = MemoryCall("save_message", arg, FALSE, RedisError)
                   /\ UNCHANGED <<redis, turns, age>>
           /\ UNCHANGED <<vector_store_type, vectors, metadata, collection, deleted,
                          llm_client, expiry, req, docVars>>

\* save_message from there: await self.redis.expire(key, self.ttl), which
\* sets no expiry on a key that does not exist
SaveMessageExpire ==
    \E ok \in BOOLEAN :
        LET s == last.arg.session_id
        IN /\ last.op = "save_message" /\ last.out = Pending
           /\ IF ok
              THEN /\ expiry' = [expiry EXCEPT ![s] = IF redis[s] # <<>> THEN ttl ELSE @]
                   /\ last' = [last EXCEPT !.out = Returns(None)]
              ELSE /\ last' = [last EXCEPT !.backend_ok = FALSE, !.out = RedisError]
                   /\ UNCHANGED expiry
           /\ UNCHANGED <<vector_store_type, vectors, metadata, collection, deleted,
                          llm_client, redis, req, memoryVars, docVars>>

GetChatHistory ==
    \E s \in Sessions, limit \in Limits, ok \in BOOLEAN :
        /\ last.out # Pending
        /\ last' = MemoryCall("get_chat_history", [session_id |-> s, limit |-> limit], ok,
                              IF ok THEN Returns(get_chat_history(redis[s], limit))
                              ELSE RedisError)
        /\ UNCHANGED <<vector_store_type, vectors, metadata, collection, deleted,
                       queryVars, memoryVars, docVars>>

ClearChatHistory ==
    \E s \in Sessions, ok \in BOOLEAN :
        LET r == clear_chat_history(redis[s])
        IN /\ last.out # Pending
           /\ IF ok
              THEN /\ redis' = [redis EXCEPT ![s] = r.list]
                   /\ expiry' = [expiry EXCEPT ![s] = NoExpiry]
                   /\ turns' = [turns EXCEPT ![s] = <<>>]
                   /\ last' = MemoryCall("clear_chat_history", [session_id |-> s], TRUE,
                                         Returns(r.value))
              ELSE /\ last' = MemoryCall("clear_chat_history", [session_id |-> s], FALSE,
                                         RedisError)
                   /\ UNCHANGED <<redis, expiry, turns>>
           /\ UNCHANGED <<vector_store_type, vectors, metadata, collection, deleted,
                          llm_client, req, age, docVars>>

\* the keys whose time to live runs out when TickSeconds pass
Expiring == {s \in Sessions : expiry[s] # NoExpiry /\ expiry[s] - TickSeconds <= 0}

\* time passes in the session store: redis removes the keys whose expiry is due
Tick ==
    /\ redis' = [s \in Sessions |-> IF s \in Expiring THEN <<>> ELSE redis[s]]
    /\ turns' = [s \in Sessions |-> IF s \in Expiring THEN <<>> ELSE turns[s]]
    /\ expiry' = [s \in Sessions |->
                    IF s \in Expiring \/ expiry[s] = NoExpiry THEN NoExpiry
                    ELSE expiry[s] - TickSeconds]
    /\ age' = [s \in Sessions |-> Min(age[s] + TickSeconds, ttl)]
    /\ UNCHANGED <<storeVars, llm_client, req, docVars>>

InitMemory ==
    /\ vector_store_type = "memory"
    /\ vectors = <<>>
    /\ metadata = <<>>
    /\ collection = NoCollection
    /\ last = NoCall
    /\ deleted = {}
    /\ llm_client = FALSE
    /\ redis = [s \in Sessions |-> <<>>]
    /\ expiry = [s \in Sessions |-> NoExpiry]
    /\ turns = [s \in Sessions |-> <<>>]
    /\ age = [s \in Sessions |-> ttl]
    /\ documents = {}
    /\ chunks_collection = <<>>
    /\ drawn = NoneDrawn
    /\ req = [r \in Reqs |-> Idle]

NextMemory ==
    \/ SaveMessagePush
    \/ SaveMessageExpire
    \/ GetChatHistory
    \/ ClearChatHistory
    \/ Tick

SpecMemory == InitMemory /\ [][NextMemory]_vars

(***************************************************************************)
(* app/services/chunking.py. A chunk is [text, metadata]; its metadata is  *)
(* a dict in insertion order.                                              *)
(***************************************************************************)
Bool(b) == [t |-> "bool", v |-> b]

\* {**base, **(metadata or {})}: the caller's pairs are written last
RECURSIVE DictUpdate(_, _)
DictUpdate(d, items) ==
    IF Len(items) = 0 THEN d
    ELSE DictUpdate(DictSet(d, Head(items)[1], Head(items)[2]), Tail(items))
WithCallerMetadata(base, caller_metadata) ==
    IF Truthy(caller_metadata) THEN DictUpdate(base, caller_metadata.v) ELSE base

\* range(0, n, step) for step > 0
RangeFrom0(n, step) == [j \in 1..((n + step - 1) \div step) |-> (j - 1) * step]

\* a chunker whose windows do not overlap: it steps by chunk_size
ChunkWithoutOverlap(text, caller_metadata, chunk_size, overlap) ==
    LET words == Split(text)
        starts == RangeFrom0(Len(words), chunk_size)
    IN [kind |-> "return",
        value |-> [j \in DOMAIN starts |->
            LET chunk_words == SubSeq(words, starts[j] + 1,
                                      Min(starts[j] + chunk_size, Len(words)))
            IN [text |-> Join(<<" ">>, chunk_words),
                metadata |-> WithCallerMetadata(
                    <<<<"chunk_index", IntVal(j - 1)>>,
                      <<"chunk_size", IntVal(Len(chunk_words))>>,
                      <<"start_word", IntVal(starts[j])>>,
                      <<"end_word", IntVal(starts[j] + Len(chunk_words) - 1)>>>>,
                    caller_metadata)]]]

\* a chunker whose end_word is the index after the chunk's last word
ChunkEndExclusive(text, caller_metadata, chunk_size, overlap) ==
    LET words == Split(text)
        starts == RangeFrom0(Len(words), Max(chunk_size - overlap, 1))
    IN [kind |-> "return",
        value |-> [j \in DOMAIN starts |->
            LET chunk_words == SubSeq(words, starts[j] + 1,
                                      Min(starts[j] + chunk_size, Len(words)))
            IN [text |-> Join(<<" ">>, chunk_words),
                metadata |-> WithCallerMetadata(
                    <<<<"chunk_index", IntVal(j - 1)>>,
                      <<"chunk_size", IntVal(Len(chunk_words))>>,
                      <<"start_word", IntVal(starts[j])>>,
                      <<"end_word", IntVal(starts[j] + Len(chunk_words))>>>>,
                    caller_metadata)]]]

\* FixedSizeChunking.chunk_text for chunk_size >= 1: range() raises ValueError
\* on a step of 0 and is empty on a negative step
FixedSizeChunkText(text, caller_metadata, chunk_size, overlap) ==
    LET words == Split(text)
        step == chunk_size - overlap
        starts == IF step > 0 THEN RangeFrom0(Len(words), step) ELSE <<>>
    IN IF step = 0 THEN [kind |-> "raise", error |-> "ValueError"]
       ELSE [kind |-> "return",
             value |-> [j \in DOMAIN starts |->
                 LET i == starts[j]
                     chunk_words == SubSeq(words, i + 1, Min(i + chunk_size, Len(words)))
                 IN [text |-> Join(<<" ">>, chunk_words),
                     metadata |-> WithCallerMetadata(
                         <<<<"chunk_index", IntVal(j - 1)>>,
                           <<"chunk_size", IntVal(Len(chunk_words))>>,
                           <<"start_word", IntVal(i)>>,
                           <<"end_word", IntVal(i + Len(chunk_words) - 1)>>>>,
                         caller_metadata)]]]

\* text.split('\n\n')
RECURSIVE SplitParagraphs(_, _, _)
SplitParagraphs(s, piece, pieces) ==
    IF Len(s) = 0 THEN Append(pieces, piece)
    ELSE IF Len(s) >= 2 /\ s[1] = "\n" /\ s[2] = "\n"
         THEN SplitParagraphs(SubSeq(s, 3, Len(s)), <<>>, Append(pieces, piece))
         ELSE SplitParagraphs(Tail(s), Append(piece, Head(s)), pieces)

\* the sentences the loops of SemanticChunking.chunk_text reach, stripped and
\* not empty, each with the index of its paragraph
RECURSIVE ParagraphSentences(_, _)
ParagraphSentences(paragraphs, para_idx) ==
    IF Len(paragraphs) = 0 THEN <<>>
    ELSE LET sentences == ReSplitTerminators(Head(paragraphs))
             stripped == [k \in DOMAIN sentences |-> <<para_idx, Strip(sentences[k])>>]
         IN SelectSeq(stripped, LAMBDA e : e[2] # <<>>)
            \o ParagraphSentences(Tail(paragraphs), para_idx + 1)

FlushedChunk(chunks, current_chunk, para, caller_metadata) ==
    [text |-> Strip(current_chunk),
     metadata |-> WithCallerMetadata(
         <<<<"chunk_index", IntVal(Len(chunks))>>,
           <<"chunk_size", IntVal(Len(Split(current_chunk)))>>>>
         \o para \o <<<<"semantic_boundary", Bool(TRUE)>>>>,
         caller_metadata)]

\* the sentence loop of SemanticChunking.chunk_text and the remaining chunk
RECURSIVE SemanticLoop(_, _, _, _, _, _)
SemanticLoop(items, chunks, current_chunk, caller_metadata, max_chunk_size, min_chunk_size) ==
    IF Len(items) = 0
    THEN IF current_chunk # <<>> /\ Len(current_chunk) >= min_chunk_size
         THEN Append(chunks, FlushedChunk(chunks, current_chunk, <<>>, caller_metadata))
         ELSE chunks
    ELSE LET para_idx == Head(items)[1]
             sentence == Head(items)[2]
         IN IF Len(current_chunk) + Len(sentence) > max_chunk_size
            THEN IF Len(current_chunk) >= min_chunk_size
                 THEN SemanticLoop(Tail(items),
                          Append(chunks,
                                 FlushedChunk(chunks, current_chunk,
                                              <<<<"paragraph_start", IntVal(para_idx)>>>>,
                                              caller_metadata)),
                          sentence, caller_metadata, max_chunk_size, min_chunk_size)
                 ELSE SemanticLoop(Tail(items), chunks, current_chunk \o <<" ">> \o sentence,
                                   caller_metadata, max_chunk_size, min_chunk_size)
            ELSE SemanticLoop(Tail(items), chunks,
                              IF current_chunk # <<>> THEN current_chunk \o <<" ">> \o sentence
                              ELSE sentence,
                              caller_metadata, max_chunk_size, min_chunk_size)

\* SemanticChunking.chunk_text
SemanticChunkText(text, caller_metadata, max_chunk_size, min_chunk_size) ==
    [kind |-> "return",
     value |-> SemanticLoop(ParagraphSentences(SplitParagraphs(text, <<>>, <<>>), 0),
                            <<>>, <<>>, caller_metadata, max_chunk_size, min_chunk_size)]

\* the sentence loop with what it did at each sentence: the buffer before, the
\* sentence, whether the buffer was emitted, the buffer after
RECURSIVE SemanticBuffers(_, _, _, _)
SemanticBuffers(items, current_chunk, max_chunk_size, min_chunk_size) ==
    IF Len(items) = 0 THEN <<>>
    ELSE LET sentence == Head(items)[2]
             over == Len(current_chunk) + Len(sentence) > max_chunk_size
             emitted == over /\ Len(current_chunk) >= min_chunk_size
             after == IF emitted THEN sentence
                      ELSE IF over THEN current_chunk \o <<" ">> \o sentence
                      ELSE IF current_chunk # <<>> THEN current_chunk \o <<" ">> \o sentence
                      ELSE sentence
         IN <<[before |-> current_chunk, sentence |-> sentence, emitted |-> emitted,
               after |-> after]>>
            \o SemanticBuffers(Tail(items), after, max_chunk_size, min_chunk_size)

\* FixedSizeChunking.__init__(chunk_size=512, overlap=50)
DefaultChunkSize == 512
DefaultOverlap == 50
\* SemanticChunking.__init__(max_chunk_size=1000, min_chunk_size=100)
DefaultMaxChunkSize == 1000
DefaultMinChunkSize == 100
FixedSizeChunkingDefault ==
    [class |-> "FixedSizeChunking", chunk_size |-> DefaultChunkSize, overlap |-> DefaultOverlap]
SemanticChunkingDefault ==
    [class |-> "SemanticChunking", max_chunk_size |-> DefaultMaxChunkSize,
     min_chunk_size |-> DefaultMinChunkSize]

\* a factory that looks the name up with strategies[strategy_name]
StrategyOrKeyError(strategy_name) ==
    IF strategy_name = "fixed_size" THEN [kind |-> "return", value |-> FixedSizeChunkingDefault]
    ELSE IF strategy_name = "semantic"
    THEN [kind |-> "return", value |-> SemanticChunkingDefault]
    ELSE [kind |-> "raise", error |-> "KeyError"]

\* get_chunking_strategy: strategies.get(strategy_name, FixedSizeChunking())
get_chunking_strategy(strategy_name) ==
    LET strategies == [fixed_size |-> FixedSizeChunkingDefault,
                       semantic |-> SemanticChunkingDefault]
    IN [kind |-> "return",
        value |-> IF strategy_name \in DOMAIN strategies THEN strategies[strategy_name]
                  ELSE FixedSizeChunkingDefault]

(***************************************************************************)
(* The chunkers as pure functions of their arguments.                      *)
(***************************************************************************)
MaxChunkSize == 3

\* "a b c"
TextThreeWords == <<"a", " ", "b", " ", "c">>
\* "a b c d"
TextFourWords == <<"a", " ", "b", " ", "c", " ", "d">>
\* "a b  c\nd e"
TextFiveWords == <<"a", " ", "b", " ", " ", "c", "\n", "d", " ", "e">>
\* "abcde"
TextOneSentence == <<"a", "b", "c", "d", "e">>
\* "ab. cd. ef"
TextThreeSentences == <<"a", "b", ".", " ", "c", "d", ".", " ", "e", "f">>
\* "ab.\n\ncd ef! g"
TextTwoParagraphs == <<"a", "b", ".", "\n", "\n", "c", "d", " ", "e", "f", "!", " ", "g">>

FixedTexts == {<<>>, <<"a">>, TextThreeWords, TextFourWords, TextFiveWords}
SemanticTexts == {<<>>, TextOneSentence, TextThreeSentences, TextTwoParagraphs, TextFiveWords}
ChunkSizes == 1..MaxChunkSize
Overlaps == 0..MaxChunkSize
MaxSizes == {2, 3, 4, 5}
MinSizes == {0, 2, 6}
\* the metadata a caller gives: none, empty, a document id, a key the chunker writes
CallerMetadatas ==
    {None, Dict(<<>>), Dict(<<<<"doc_id", Str(DocOne)>>>>), Dict(<<<<"chunk_index", IntVal(7)>>>>)}

FixedSizeChunking ==
    \E text \in FixedTexts, m \in CallerMetadatas, chunk_size \in ChunkSizes,
       overlap \in Overlaps :
        /\ last' = [op |-> "FixedSizeChunking.chunk_text",
                    arg |-> [text |-> text, metadata |-> m, chunk_size |-> chunk_size,
                             overlap |-> overlap],
                    backend_ok |-> TRUE,
                    out |-> FixedSizeChunkText(text, m, chunk_size, overlap)]
        /\ UNCHANGED <<vector_store_type, vectors, metadata, collection, deleted,
                       queryVars, memoryVars, docVars>>

SemanticChunking ==
    \E text \in SemanticTexts, m \in CallerMetadatas, max_chunk_size \in MaxSizes,
       min_chunk_size \in MinSizes :
        /\ last' = [op |-> "SemanticChunking.chunk_text",
                    arg |-> [text |-> text, metadata |-> m,
                             max_chunk_size |-> max_chunk_size,
                             min_chunk_size |-> min_chunk_size],
                    backend_ok |-> TRUE,
                    out |-> SemanticChunkText(text, m, max_chunk_size, min_chunk_size)]
        /\ UNCHANGED <<vector_store_type, vectors, metadata, collection, deleted,
                       queryVars, memoryVars, docVars>>

\* the names a caller asks the factory for
StrategyNames == {"fixed_size", "semantic", "Semantic", "recursive", ""}

GetChunkingStrategy ==
    \E strategy_name \in StrategyNames :
        /\ last' = [op |-> "get_chunking_strategy",
                    arg |-> [strategy_name |-> strategy_name],
                    backend_ok |-> TRUE,
                    out |-> get_chunking_strategy(strategy_name)]
        /\ UNCHANGED <<vector_store_type, vectors, metadata, collection, deleted,
                       queryVars, memoryVars, docVars>>

InitChunking == InitMemory
NextChunking == FixedSizeChunking \/ SemanticChunking \/ GetChunkingStrategy
SpecChunking == InitChunking /\ [][NextChunking]_vars

(***************************************************************************)
(* EmbeddingService. A text is named by a number; a vector is recorded by  *)
(* the backend that made it, the text it embeds and its length.            *)
(***************************************************************************)
\* batch_size = 96
batch_size == 96
\* the length of an embed-english-v3.0 vector
CohereDimension == 1024
\* the remote batches a call may need
MaxBatches == 3

CohereVector(text) == [backend |-> "cohere", text |-> text, dimension |-> CohereDimension]
LocalVector(text, dimension) ==
    [backend |-> "sentence_transformer", text |-> text, dimension |-> dimension]

\* _generate_sentence_transformer_embeddings; encode_ok: encode answers
_generate_sentence_transformer_embeddings(texts, local_dimension, encode_ok) ==
    IF encode_ok
    THEN [kind |-> "return",
          value |-> [i \in DOMAIN texts |-> LocalVector(texts[i], local_dimension)]]
    ELSE [kind |-> "raise", error |-> "EncodeError"]

\* texts[i:i + batch_size]
BatchOf(texts, i) == SubSeq(texts, i + 1, Min(i + batch_size, Len(texts)))

\* the batch loop of _generate_cohere_embeddings; fail_at: the batch whose embed
\* call raises (0: none). The result: the whole list, or the exception.
RECURSIVE CohereLoop(_, _, _, _)
CohereLoop(texts, starts, all_embeddings, fail_at) ==
    IF Len(starts) = 0 THEN [ok |-> TRUE, all_embeddings |-> all_embeddings]
    ELSE IF fail_at = 1 THEN [ok |-> FALSE, all_embeddings |-> all_embeddings]
    ELSE LET batch_texts == BatchOf(texts, Head(starts))
             embeddings == [i \in DOMAIN batch_texts |-> CohereVector(batch_texts[i])]
         IN CohereLoop(texts, Tail(starts), all_embeddings \o embeddings,
                       IF fail_at = 0 THEN 0 ELSE fail_at - 1)

\* a remote path that embeds only the failed batch with the local backend
RECURSIVE FallbackPerBatch(_, _, _, _, _)
FallbackPerBatch(texts, starts, all_embeddings, fail_at, local_dimension) ==
    IF Len(starts) = 0 THEN [kind |-> "return", value |-> all_embeddings]
    ELSE LET batch_texts == BatchOf(texts, Head(starts))
             embeddings == [i \in DOMAIN batch_texts |->
                               IF fail_at = 1 THEN LocalVector(batch_texts[i], local_dimension)
                               ELSE CohereVector(batch_texts[i])]
         IN FallbackPerBatch(texts, Tail(starts), all_embeddings \o embeddings,
                             IF fail_at = 0 THEN 0 ELSE fail_at - 1, local_dimension)
CohereFallbackPerBatch(texts, fail_at, local_dimension, encode_ok) ==
    FallbackPerBatch(texts, RangeFrom0(Len(texts), batch_size), <<>>, fail_at,
                     local_dimension)

\* EmbeddingService._generate_cohere_embeddings
_generate_cohere_embeddings(texts, fail_at, local_dimension, encode_ok) ==
    LET r == CohereLoop(texts, RangeFrom0(Len(texts), batch_size), <<>>, fail_at)
    IN IF r.ok THEN [kind |-> "return", value |-> r.all_embeddings]
       ELSE _generate_sentence_transformer_embeddings(texts, local_dimension, encode_ok)

\* EmbeddingService.generate_embeddings; cohere_client: settings.cohere_api_key
\* was set when the service was built
generate_embeddings(texts, model_type, cohere_client, fail_at, local_dimension, encode_ok) ==
    IF model_type = "cohere" /\ cohere_client
    THEN _generate_cohere_embeddings(texts, fail_at, local_dimension, encode_ok)
    ELSE _generate_sentence_transformer_embeddings(texts, local_dimension, encode_ok)

\* EmbeddingService.get_embedding_dimension
get_embedding_dimension(cohere_client, local_dimension) ==
    IF cohere_client THEN CohereDimension ELSE local_dimension

\* the inputs: numbers of texts around the batch limits, the model types a
\* caller names, the length of the local model's vectors
TextCounts == {0, 1} \cup {k * batch_size + d : k \in 1..(MaxBatches - 1), d \in {0, 1}}
ModelTypes == {"sentence_transformer", "cohere", "openai"}
LocalDimensions == {384, CohereDimension}
FailAts == 0..MaxBatches

GenerateEmbeddings ==
    \E n \in TextCounts, model_type \in ModelTypes, cohere_client \in BOOLEAN,
       fail_at \in FailAts, local_dimension \in LocalDimensions, encode_ok \in BOOLEAN :
        LET texts == [i \in 1..n |-> i]
            remote == model_type = "cohere" /\ cohere_client
            batches == Len(RangeFrom0(n, batch_size))
        IN \* the switches of a backend that is not called stay at their default
           /\ ~remote => fail_at = 0
           /\ fail_at <= batches
           /\ (remote /\ fail_at = 0) => encode_ok
           /\ last' = [op |-> "generate_embeddings",
                       arg |-> [texts |-> texts, model_type |-> model_type,
                                cohere_client |-> cohere_client,
                                local_dimension |-> local_dimension, fail_at |-> fail_at],
                       backend_ok |-> fail_at = 0 /\ encode_ok,
                       out |-> generate_embeddings(texts, model_type, cohere_client, fail_at,
                                                   local_dimension, encode_ok)]
           /\ UNCHANGED <<vector_store_type, vectors, metadata, collection, deleted,
                          queryVars, memoryVars, docVars>>

GetEmbeddingDimension ==
    \E cohere_client \in BOOLEAN, local_dimension \in LocalDimensions :
        /\ last' = [op |-> "get_embedding_dimension",
                    arg |-> [cohere_client |-> cohere_client,
                             local_dimension |-> local_dimension],
                    backend_ok |-> TRUE,
                    out |-> [kind |-> "return",
                             value |-> get_embedding_dimension(cohere_client,
                                                               local_dimension)]]
        /\ UNCHANGED <<vector_store_type, vectors, metadata, collection, deleted,
                       queryVars, memoryVars, docVars>>

InitEmbedding == InitMemory
NextEmbedding == GenerateEmbeddings \/ GetEmbeddingDimension
SpecEmbedding == InitEmbedding /\ [][NextEmbedding]_vars

(***************************************************************************)
(* The documents API (app/api/documents.py) and the retrieval of a later   *)
(* chat query. A request handler is one step: it runs up to its first      *)
(* failing call. The documents table is a set of [id, content_hash],       *)
(* mongodb.document_chunks a sequence of [chunk_id, document_id].          *)
(***************************************************************************)
HttpError(status) == [kind |-> "raise", status |-> status]

\* InMemoryVectorStore(): what get_vector_store() returns for every call when
\* vector_store_type is not "qdrant"
FreshStore == [vectors |-> <<>>, metadata |-> <<>>]

\* the texts of the uploaded files, the strategies the endpoint accepts, the
\* str(document.id) values uuid4 may give
UploadTexts == {TextRag, TextCat, <<>>}
UploadStrategies == {"fixed_size", "semantic"}
DocumentIds == {DocOne, DocTwo}
\* the call of a handler that fails
UploadFailures == {"none", "embed", "flush", "upsert", "insert_many", "commit"}
DeleteFailures == {"none", "find", "delete_vectors", "delete_many", "commit"}

\* chunking_service.chunk_text(text_content, {'document_id': ..., 'filename': ...,
\* 'file_type': ...}); the document_id of this map is a throw-away uuid
UploadChunks(text, chunking_strategy) ==
    LET strategy == get_chunking_strategy(chunking_strategy).value
        caller_metadata ==
            Dict(<<<<"document_id", Str(<<"u">>)>>, <<"filename", Str(<<"f">>)>>,
                   <<"file_type", Str(<<"t","x","t">>)>>>>)
    IN IF strategy.class = "SemanticChunking"
       THEN SemanticChunkText(text, caller_metadata, strategy.max_chunk_size,
                              strategy.min_chunk_size).value
       ELSE FixedSizeChunkText(text, caller_metadata, strategy.chunk_size,
                               strategy.overlap).value

\* chunk_meta = {**chunk['metadata'], 'document_id': str(document.id), 'text': chunk['text']}
ChunkMeta(chunk, document_id) ==
    LET d == DictSet(DictSet(chunk.metadata, "document_id", Str(document_id)),
                     "text", Str(chunk.text))
    IN [k \in KeySet(d) |-> DictGet(d, k, None)]

\* the chunk ids of a document in mongodb.document_chunks
ChunkIdsOf(document_id) ==
    LET found == SelectSeq(chunks_collection, LAMBDA c : c.document_id = document_id)
    IN [i \in DOMAIN found |-> found[i].chunk_id]

DocumentCall(op, arg, ok, out) == [op |-> op, arg |-> arg, backend_ok |-> ok, out |-> out]

\* upload_document
UploadDocument ==
    \E text \in UploadTexts, chunking_strategy \in UploadStrategies,
       fails \in UploadFailures, ensure_ok \in BOOLEAN :
      LET chunks == UploadChunks(text, chunking_strategy)
          embeddings == [i \in DOMAIN chunks |-> encode(chunks[i].text)]
          flushed == fails \notin {"embed", "flush"}
          Outcome(out, vs, ms, col, inserted, committed, ids) ==
              /\ last' = DocumentCall("upload_document",
                                      [text |-> text, chunking_strategy |-> chunking_strategy,
                                       fails |-> fails, document_id |-> ids.document_id,
                                       chunk_ids |-> ids.chunk_ids],
                                      fails = "none" /\ ensure_ok, out)
              /\ vectors' = vs /\ metadata' = ms /\ collection' = col
              /\ chunks_collection' = chunks_collection \o inserted
              /\ documents' = documents \cup committed
              /\ drawn' = [document_ids |-> drawn.document_ids \cup {ids.document_id},
                           chunk_ids |-> drawn.chunk_ids \cup Range(ids.chunk_ids)]
          NoIds == [document_id |-> <<>>, chunk_ids |-> <<>>]
      IN /\ vector_store_type = "memory" => fails # "upsert" /\ ensure_ok
         /\ IF \E d \in documents : d.content_hash = text
            THEN /\ last' = DocumentCall("upload_document",
                                         [text |-> text,
                                          chunking_strategy |-> chunking_strategy,
                                          fails |-> "none", document_id |-> <<>>,
                                          chunk_ids |-> <<>>], TRUE, HttpError(409))
                 /\ fails = "none" /\ ensure_ok
                 /\ UNCHANGED <<vectors, metadata, collection, docVars>>
            ELSE IF Len(chunks) = 0
            THEN /\ last' = DocumentCall("upload_document",
                                         [text |-> text,
                                          chunking_strategy |-> chunking_strategy,
                                          fails |-> "none", document_id |-> <<>>,
                                          chunk_ids |-> <<>>], TRUE, HttpError(400))
                 /\ fails = "none" /\ ensure_ok
                 /\ UNCHANGED <<vectors, metadata, collection, docVars>>
            ELSE IF fails = "embed"
            THEN /\ last' = DocumentCall("upload_document",
                                         [text |-> text,
                                          chunking_strategy |-> chunking_strategy,
                                          fails |-> fails, document_id |-> <<>>,
                                          chunk_ids |-> <<>>], FALSE, HttpError(500))
                 /\ ensure_ok
                 /\ UNCHANGED <<vectors, metadata, collection, docVars>>
            ELSE \E document_id \in DocumentIds \ drawn.document_ids :
                 \E chunk_ids \in FreshIds(drawn.chunk_ids, Len(chunks)) :
                   LET ids == [document_id |-> document_id, chunk_ids |-> chunk_ids]
                       chunk_metadata == [i \in DOMAIN chunks |->
                                             ChunkMeta(chunks[i], document_id)]
                       store == FreshStore
                       added ==
                           IF vector_store_type = "memory"
                           THEN LET r == InMemoryAddVectors(store.vectors, store.metadata,
                                                            embeddings, chunk_metadata,
                                                            chunk_ids)
                                IN [vectors |-> r.vectors, metadata |-> r.metadata,
                                    collection |-> collection, out |-> r.out]
                           ELSE LET r == QdrantAddVectors(collection, embeddings,
                                                          chunk_metadata, chunk_ids,
                                                          ensure_ok, fails # "upsert")
                                IN [vectors |-> vectors, metadata |-> metadata,
                                    collection |-> r.collection, out |-> r.out]
                       chunk_documents == [i \in DOMAIN chunks |->
                                              [chunk_id |-> chunk_ids[i],
                                               document_id |-> document_id]]
                   IN IF fails = "flush"
                      THEN /\ ensure_ok
                           /\ Outcome(HttpError(500), vectors, metadata, collection, <<>>, {},
                                      [document_id |-> document_id, chunk_ids |-> <<>>])
                      ELSE IF added.out.kind = "raise"
                      THEN Outcome(HttpError(500), added.vectors, added.metadata,
                                   added.collection, <<>>, {}, ids)
                      ELSE IF fails = "insert_many"
                      THEN Outcome(HttpError(500), added.vectors, added.metadata,
                                   added.collection, <<>>, {}, ids)
                      ELSE IF fails = "commit"
                      THEN Outcome(HttpError(500), added.vectors, added.metadata,
                                   added.collection, chunk_documents, {}, ids)
                      ELSE Outcome([kind |-> "return",
                                    value |-> [document_id |-> document_id,
                                               total_chunks |-> Len(chunks)]],
                                   added.vectors, added.metadata, added.collection,
                                   chunk_documents,
                                   {[id |-> document_id, content_hash |-> text]}, ids)
         /\ UNCHANGED <<vector_store_type, deleted, queryVars, memoryVars>>

\* delete_document
DeleteDocument ==
    \E document_id \in DocumentIds, fails \in DeleteFailures :
      LET arg == [document_id |-> document_id, fails |-> fails]
          chunk_ids == ChunkIdsOf(document_id)
          store == FreshStore
          removed ==
              IF vector_store_type = "memory"
              THEN LET r == InMemoryDeleteVectors(store.vectors, store.metadata, chunk_ids)
                   IN [vectors |-> r.vectors, metadata |-> r.metadata,
                       collection |-> collection, out |-> r.out]
              ELSE LET r == QdrantDeleteVectors(collection, chunk_ids,
                                                fails # "delete_vectors")
                   IN [vectors |-> vectors, metadata |-> metadata,
                       collection |-> r.collection, out |-> r.out]
          remaining == SelectSeq(chunks_collection, LAMBDA c : c.document_id # document_id)
      IN /\ vector_store_type = "memory" => fails # "delete_vectors"
         /\ IF ~\E d \in documents : d.id = document_id
            THEN /\ fails = "none"
                 /\ last' = DocumentCall("delete_document", arg, TRUE, HttpError(404))
                 /\ UNCHANGED <<vectors, metadata, collection, documents, chunks_collection>>
            ELSE IF fails = "find"
            THEN /\ last' = DocumentCall("delete_document", arg, FALSE, HttpError(500))
                 /\ UNCHANGED <<vectors, metadata, collection, documents, chunks_collection>>
            ELSE /\ vectors' = removed.vectors
                 /\ metadata' = removed.metadata
                 /\ collection' = removed.collection
                 /\ chunks_collection' = IF fails = "delete_many" THEN chunks_collection
                                         ELSE remaining
                 /\ documents' = IF fails \in {"delete_many", "commit"} THEN documents
                                 ELSE {d \in documents : d.id # document_id}
                 /\ last' = DocumentCall("delete_document", arg, fails = "none",
                                IF fails \in {"delete_many", "commit"} THEN HttpError(500)
                                ELSE [kind |-> "return", value |-> "deleted"])
         /\ UNCHANGED <<vector_store_type, deleted, queryVars, memoryVars, drawn>>

\* RAGEngine() and retrieve_relevant_chunks of a chat query
RetrieveRelevantChunks ==
    \E query \in {QueryRag, QueryDogs}, top_k \in QueryTopKs, ok \in BOOLEAN :
      LET store == FreshStore
          out == IF vector_store_type = "memory"
                 THEN InMemorySearch(store.vectors, store.metadata, encode(query), top_k, None)
                 ELSE QdrantSearch(collection, encode(query), top_k, None, ok)
      IN /\ vector_store_type = "memory" => ok
         /\ vectors' = IF vector_store_type = "memory" THEN store.vectors ELSE vectors
         /\ metadata' = IF vector_store_type = "memory" THEN store.metadata ELSE metadata
         /\ last' = DocumentCall("retrieve_relevant_chunks",
                                 [query |-> query, top_k |-> top_k], ok, out)
         /\ UNCHANGED <<vector_store_type, collection, deleted, queryVars, memoryVars,
                        docVars>>

InitDocuments == InitStore
NextDocuments == UploadDocument \/ DeleteDocument \/ RetrieveRelevantChunks
SpecDocuments == InitDocuments /\ [][NextDocuments]_vars

(***************************************************************************)
(* Claims about the vector store (under SpecStore).                        *)
(***************************************************************************)
SearchReturned == last.op = "search" /\ last.out.kind = "return"
Hits == last.out.value
HitIds == {Hits[i][1] : i \in DOMAIN Hits}
InMemorySearched == last.op = "search" /\ vector_store_type = "memory"

\* C6 (as claimed): after delete_vectors(ids) has been called, no later
\* search returns an id of ids, whatever was added and deleted before and
\* whatever the query vector, top_k and filter are, until an add stores that
\* id again.
C6_Original ==
    SearchReturned => \A d \in deleted : d[1] \notin HitIds

\* C6 (amended): once delete_vectors(ids) has returned True, no later search
\* returns an id of ids, whatever was added and deleted before and whatever
\* the query vector, top_k and filter are, until an add stores that id again.
C6_DeletedNeverReturned ==
    SearchReturned => \A d \in deleted : d[2] => d[1] \notin HitIds

\* C6 witness: a search that returns hits while an id that was stored and then
\* deleted with True is still deleted.
C6_Witness ==
    SearchReturned /\ Len(Hits) > 0 /\ \E d \in deleted : d[2]

\* the candidates of the last in-memory search, and what the claim asks of its hits
LastCandidates == Candidates(vectors, metadata, last.arg.filter_dict)
ScoreOf(vector_id) == cosine_similarity(last.arg.query_vector, DictGet(vectors, vector_id, <<>>))
TopKPostcondition ==
    /\ last.out.kind = "return"
    /\ Len(Hits) = Min(last.arg.top_k, Len(LastCandidates))
    /\ \A i, j \in DOMAIN Hits : i < j => SimGeq(Hits[i][2], Hits[j][2])
    /\ \A i, j \in DOMAIN Hits : i # j => Hits[i][1] # Hits[j][1]
    /\ \A i \in DOMAIN Hits :
          /\ Hits[i][1] \in KeySet(LastCandidates)
          /\ Hits[i][2] = ScoreOf(Hits[i][1])
    /\ \A c \in KeySet(LastCandidates) \ HitIds :
          \A i \in DOMAIN Hits : ~SimGreater(ScoreOf(c), Hits[i][2])

SameDimension ==
    \A i \in DOMAIN LastCandidates : Len(LastCandidates[i][2]) = Len(last.arg.query_vector)

\* C7 (as claimed): for every store content, query vector and top_k >= 0,
\* InMemoryVectorStore.search returns min(top_k, candidates) hits in
\* non-increasing order of similarity, and no candidate left out scores higher
\* than a hit.
C7_Original ==
    (InMemorySearched /\ last.arg.top_k >= 0) => TopKPostcondition

\* C7 (amended): the same, for every query vector whose dimension is that of
\* every candidate record; on a candidate of another dimension search raises.
C7_SearchTopK ==
    (InMemorySearched /\ last.arg.top_k >= 0) =>
        IF SameDimension THEN TopKPostcondition ELSE last.out.kind = "raise"

\* C7 witness: top_k = 1 cuts two candidates down to the better one, which was
\* stored second.
C7_Witness ==
    /\ InMemorySearched /\ last.out.kind = "return"
    /\ last.arg.top_k = 1 /\ Len(LastCandidates) = 2 /\ Len(Hits) = 1
    /\ Hits[1][1] = LastCandidates[2][1]
    /\ SimGreater(Hits[1][2], ScoreOf(LastCandidates[1][1]))

\* a payload holds every key of the filter with the filter's value
HoldsEveryPair(meta, fd) == \A k \in DOMAIN fd : k \in DOMAIN meta /\ meta[k] = fd[k]

\* C8: given a filter, a stored record is a candidate of search if and only if
\* its payload contains every filter key with the filter's value; a record
\* whose payload lacks a filter key is never returned.
C8_FilterExactMatch ==
    (InMemorySearched /\ last.out.kind = "return" /\ Truthy(last.arg.filter_dict)) =>
        /\ \A i \in DOMAIN Hits : HoldsEveryPair(Hits[i][3], last.arg.filter_dict.v)
        /\ \A i \in DOMAIN vectors :
              HoldsEveryPair(DictGet(metadata, vectors[i][1], EmptyDict),
                             last.arg.filter_dict.v)
              <=> vectors[i][1] \in KeySet(LastCandidates)

\* the dimensions of the vectors a store holds
StoredDims ==
    IF vector_store_type = "memory" THEN {Len(vectors[i][2]) : i \in DOMAIN vectors}
    ELSE {Len(collection.points[i][2].vector) : i \in DOMAIN collection.points}

\* C9: once the store holds a vector of dimension d, an add_vectors with a
\* vector of another dimension is rejected with an error and leaves the
\* records as they were.
C9_MismatchRejected ==
    [][(/\ last'.op = "add"
        /\ \E d \in StoredDims :
              \E i \in DOMAIN last'.arg.vectors : Len(last'.arg.vectors[i]) # d)
       => (/\ last'.out.kind = "raise"
           /\ vectors' = vectors /\ metadata' = metadata
           /\ collection'.points = collection.points)]_vars

\* C10: when the vector backend fails, search and delete_vectors report an
\* error to the caller: a failed search does not look like a search without
\* hits.
C10_BackendFailureReported ==
    (vector_store_type = "qdrant" /\ ~last.backend_ok) =>
        /\ last.op = "search" => last.out.kind = "raise"
        /\ last.op = "delete" => (last.out.kind = "raise" \/ last.out.value = FALSE)

\* the cosine value 1.0
IsOne(sim) == sim.num > 0 /\ sim.num * sim.num = sim.den
NonZero(v) == \E i \in DOMAIN v : v[i] # 0

\* an in-memory add_vectors([v], [payload]) has returned [id] and left the
\* store with that one record
AddedOneToEmpty ==
    /\ vector_store_type = "memory"
    /\ last.op = "add" /\ last.out.kind = "return"
    /\ Len(last.arg.vectors) = 1 /\ Len(last.arg.metadata) = 1
    /\ Len(last.out.value) = 1
    /\ Len(vectors) = 1
    /\ NonZero(last.arg.vectors[1])

\* C11: round trip on the in-memory store: add_vectors([v], [payload]) on an
\* empty store returning [id], followed by search(v, top_k = 1), returns
\* exactly one hit, with that id, that payload and the similarity 1.0, for
\* every non-zero v.
C11_RoundTrip ==
    [][(/\ AddedOneToEmpty
        /\ last'.op = "search"
        /\ last'.arg.query_vector = last.arg.vectors[1]
        /\ last'.arg.top_k = 1
        /\ last'.arg.filter_dict = None)
       => (/\ last'.out.kind = "return"
           /\ Len(last'.out.value) = 1
           /\ last'.out.value[1][1] = last.out.value[1]
           /\ IsOne(last'.out.value[1][2])
           /\ last'.out.value[1][3] = last.arg.metadata[1])]_(last.op)

\* C11 witness: the search for the only stored vector, with top_k = 1 and no
\* filter, has returned one hit of similarity 1.0 that carries a payload.
C11_Witness ==
    /\ InMemorySearched /\ last.out.kind = "return"
    /\ Len(vectors) = 1 /\ last.arg.query_vector = vectors[1][2]
    /\ last.arg.top_k = 1 /\ last.arg.filter_dict = None
    /\ Len(Hits) = 1 /\ IsOne(Hits[1][2]) /\ Hits[1][3] = PayloadRag

(***************************************************************************)
(* Claims about process_chat_query (under Spec).                           *)
(***************************************************************************)
Done(r) == req[r].pc = "done"
Raised(r) == Done(r) /\ req[r].result.kind = "raise"
Returned(r) == Done(r) /\ req[r].result.kind = "return"

\* C1: process_chat_query never fails its caller because a backend is degraded:
\* whichever of the embedding, vector search, generative model and session
\* store calls fail, the call returns a result with a response, an intent and a
\* retrieved-chunk list instead of raising.
C1_NeverRaises ==
    \A r \in Reqs :
        Done(r) =>
            /\ req[r].result.kind = "return"
            /\ {"response", "intent", "retrieved_chunks"} \subseteq DOMAIN req[r].result.value

RetrievalFailed(r) == req[r].failed \cap {"embed", "search"} # {}

\* C2: an error of the retrieval backend (the query embedding or the search of
\* either store) leaves the retrieved-chunk set empty and the pipeline goes on
\* to Synthesize, Persist and Return: the error does not leave the call.
C2_RetrievalErrorDegrades ==
    \A r \in Reqs :
        RetrievalFailed(r) =>
            /\ req[r].relevant_chunks = <<>>
            /\ Raised(r) => req[r].failed \cap {"redis.lpush", "redis.expire"} # {}

\* the chunk texts the extractive fallback may be given: as stored, or as
\* generate_response prefixes them
RawTexts(chunks) == [i \in DOMAIN chunks |-> ChunkText(chunks[i])]
ExtractiveAnswers(q) ==
    {_generate_simple_response(q.query, RawTexts(q.relevant_chunks)),
     _generate_simple_response(q.query, ContextTexts(q.relevant_chunks))}

\* C3: with a generative backend configured whose call fails, the answer is the
\* one the extractive fallback computes from the retrieved chunks; the error
\* is neither raised nor returned as the answer text.
C3_FallbackOnLlmFailure ==
    \A r \in Reqs :
        (llm_client /\ "llm.chat" \in req[r].failed) =>
            /\ req[r].response \in ExtractiveAnswers(req[r])
            /\ req[r].response # ErrorGenerating \o LlmError

\* C4: every process_chat_query call that takes the non-booking branch appends
\* exactly one user turn (the query) and then exactly one assistant turn (the
\* response, with the number of retrieved chunks) to the session's memory.
C4_BothTurnsAppended ==
    \A r \in Reqs :
        (Done(r) /\ ~_detect_booking_intent(req[r].query)) =>
            /\ req[r].pushed = <<UserTurn(req[r]), AssistantTurn(req[r])>>
            /\ \E i, j \in DOMAIN redis[req[r].session_id] :
                  /\ j < i
                  /\ redis[req[r].session_id][i] = json_dumps(UserTurn(req[r]))
                  /\ redis[req[r].session_id][j] = json_dumps(AssistantTurn(req[r]))

\* the lower-cased query contains a scheduling keyword
HasSchedulingKeyword(query) ==
    \E i \in DOMAIN booking_keywords :
        \E at \in 1..Len(query) :
            /\ at + Len(booking_keywords[i]) - 1 <= Len(query)
            /\ \A n \in 1..Len(booking_keywords[i]) :
                  LowerChar(query[at + n - 1]) = booking_keywords[i][n]

\* C5: a query whose lower-cased text contains a scheduling keyword returns
\* intent booking with no retrieved chunk, and no embedding call and no vector
\* search is made for it, whatever the vector store holds.
C5_BookingShortCircuit ==
    \A r \in Reqs :
        (req[r].pc \notin {"idle", "gone"} /\ HasSchedulingKeyword(req[r].query)) =>
            /\ Returned(r)
            /\ req[r].result.value.intent = "booking"
            /\ req[r].result.value.retrieved_chunks = <<>>
            /\ req[r].result.value.response = BookingPrompt
            /\ req[r].calls = {}

\* C5 witness: "Schedule an interview" answered as a booking over a store that
\* holds records.
C5_Witness ==
    \E r \in Reqs :
        /\ Returned(r)
        /\ req[r].query = QueryBooking
        /\ req[r].result.value.intent = "booking"
        /\ Len(vectors) + Len(collection.points) > 0

\* a general query answered without a generative backend
AnsweredExtractively(r) ==
    /\ Returned(r) /\ ~llm_client
    /\ req[r].result.value.intent = "general_query"
\* the words a text has in common with the query, both lower-cased
SharedWords(query, text) == Range(Split(Lower(query))) \cap Range(Split(Lower(text)))
\* the chunks of the largest word overlap with the query
LargestOverlap(query, texts) ==
    {i \in DOMAIN texts :
        \A j \in DOMAIN texts :
            Cardinality(SharedWords(query, texts[j])) <= Cardinality(SharedWords(query, texts[i]))}
\* the sentences of a text that contain a query word, in order
QuerySentences(query, text) ==
    LET hit == SelectSeq(ReSplitTerminators(text),
                         LAMBDA sentence : SharedWords(query, sentence) # {})
    IN [i \in DOMAIN hit |-> Strip(hit[i])]

\* C19: on the extractive path with a retrieved chunk that shares a word with
\* the query, the answer is built only from the chunk of the largest word
\* overlap: it is the concatenation of at most the first 2 sentences of that
\* chunk's text that contain a query word.
C19_AnswerFromBestChunk ==
    \A r \in Reqs :
        LET texts == RawTexts(req[r].relevant_chunks)
        IN (/\ AnsweredExtractively(r)
            /\ \E i \in DOMAIN texts : SharedWords(req[r].query, texts[i]) # {}) =>
               \E i \in LargestOverlap(req[r].query, texts) :
                   req[r].result.value.response =
                       Join(<<" ">>, SliceTo(QuerySentences(req[r].query, texts[i]),
                                             MaxSentences))

\* C20: on the extractive path, no retrieved chunk gives the fixed
\* insufficient-information message; retrieved chunks of which none shares a
\* word with the query give an excerpt of at most the first 200 characters of
\* the top-ranked chunk's text.
C20_NoMatchExcerpt ==
    \A r \in Reqs :
        LET texts == RawTexts(req[r].relevant_chunks)
            response == req[r].result.value.response
        IN AnsweredExtractively(r) =>
            /\ texts = <<>> => response = NoInformation
            /\ (/\ texts # <<>>
                /\ \A i \in DOMAIN texts : SharedWords(req[r].query, texts[i]) = {}) =>
                   response = BasedOn \o SliceTo(texts[1], ExcerptChars) \o Ellipsis

(***************************************************************************)
(* Claims about the chat memory (under SpecMemory).                        *)
(***************************************************************************)
\* the step is a call of op that has returned
MemoryReturned(op) ==
    /\ last'.op = op /\ last'.out.kind = "return"
    /\ \/ last.op # op
       \/ last.out.kind # "return"
       \/ last.arg # last'.arg
       \/ last.out.value # last'.out.value

\* the step is the session store dropping the key of s, whose time has run out
KeyExpires(s) ==
    /\ redis[s] # <<>> /\ redis'[s] = <<>>
    /\ ~(last'.op = "clear_chat_history" /\ last'.out.kind = "return"
          /\ last'.arg.session_id = s)

\* the min(N, k) most recent of N appended turns, oldest first
MostRecent(appended, k) ==
    SubSeq(appended, Len(appended) - Min(Len(appended), k) + 1, Len(appended))

\* C12: for a session to which N turns were appended (not cleared, not
\* expired) and every limit k >= 0, get_chat_history(session, k) returns
\* exactly the min(N, k) most recently appended turns, oldest first.
C12_HistoryMostRecent ==
    [][(MemoryReturned("get_chat_history") /\ last'.arg.limit >= 0)
       => last'.out.value = MostRecent(turns[last'.arg.session_id], last'.arg.limit)]_vars

\* C13: clear_chat_history(session) returns true if and only if the session
\* had a stored key, removes all of the session's turns at once, leaves the
\* turns of every other session as they were, and a get_chat_history that
\* follows returns the empty list.
C13_ClearRemovesSession ==
    [][MemoryReturned("clear_chat_history")
       => LET s == last'.arg.session_id
          IN /\ last'.out.value = (redis[s] # <<>>)
             /\ redis'[s] = <<>>
             /\ \A o \in Sessions \ {s} : redis'[o] = redis[o]
             /\ \A k \in Limits : get_chat_history(redis'[s], k) = <<>>]_vars

\* C13 witness: a clear has returned true and emptied its session while the
\* other session still holds its turns.
C13_Witness ==
    /\ last.op = "clear_chat_history" /\ last.out = Returns(TRUE)
    /\ redis[last.arg.session_id] = <<>>
    /\ \E o \in Sessions \ {last.arg.session_id} : Len(redis[o]) = MaxStored

\* C14: every completed save_message on a session resets the session's
\* remaining time to live to the full ttl for the whole list, so that a
\* session expires only when no append happened during a full ttl window.
C14_SaveRefreshesTtl ==
    [][/\ (last.out = Pending /\ last'.out.kind = "return")
            => expiry'[last.arg.session_id] = ttl
       /\ \A s \in Sessions :
            KeyExpires(s) => age'[s] >= ttl]_vars

(***************************************************************************)
(* Claims about the chunkers (under SpecChunking).                         *)
(***************************************************************************)
FixedChunked == last.op = "FixedSizeChunking.chunk_text"
SemanticChunked == last.op = "SemanticChunking.chunk_text"
Chunks == last.out.value
\* a fixed-size call with window size S and overlap O, 0 <= O < S
OverlapBelowSize ==
    FixedChunked /\ 0 <= last.arg.overlap /\ last.arg.overlap < last.arg.chunk_size
WordsOf(chunk) == Split(chunk.text)

\* C15: for window size S, overlap O with 0 <= O < S and a text of n words,
\* FixedSizeChunking.chunk_text emits one chunk for each start index
\* i = 0, S-O, 2(S-O), ... below n; the chunk is the words i .. min(i+S, n)-1,
\* at most S words, with start_word = i and end_word = the index of its last
\* word.
C15_FixedWindows ==
    OverlapBelowSize =>
        LET words == Split(last.arg.text)
            n == Len(words)
            S == last.arg.chunk_size
            step == S - last.arg.overlap
            starts == {i \in 0..(n - 1) : i % step = 0}
        IN /\ last.out.kind = "return"
           /\ Len(Chunks) = Cardinality(starts)
           /\ \A j \in DOMAIN Chunks :
                LET i == (j - 1) * step
                IN /\ i \in starts
                   /\ WordsOf(Chunks[j]) = SubSeq(words, i + 1, Min(i + S, n))
                   /\ Chunks[j].text = Join(<<" ">>, SubSeq(words, i + 1, Min(i + S, n)))
                   /\ Len(WordsOf(Chunks[j])) <= S
                   /\ DictGet(Chunks[j].metadata, "start_word", None) = IntVal(i)
                   /\ DictGet(Chunks[j].metadata, "end_word", None)
                          = IntVal(Min(i + S, n) - 1)

\* C15 witness: five words with S = 3 and O = 1 give the windows at 0, 2 and 4,
\* the last of one word.
C15_Witness ==
    /\ FixedChunked /\ last.arg.text = TextFiveWords
    /\ last.arg.chunk_size = 3 /\ last.arg.overlap = 1
    /\ Len(Chunks) = 3 /\ Chunks[3].text = <<"e">>
    /\ DictGet(Chunks[3].metadata, "start_word", None) = IntVal(4)

\* C16 (as claimed): for every pair of consecutive chunks of FixedSizeChunking
\* with overlap O < S, the last O words of the earlier chunk are the first
\* words of the later chunk.
C16_Original ==
    (OverlapBelowSize /\ last.out.kind = "return") =>
        \A j \in 1..(Len(Chunks) - 1) :
            LET a == WordsOf(Chunks[j])
                b == WordsOf(Chunks[j + 1])
                O == last.arg.overlap
            IN /\ Len(a) >= O /\ Len(b) >= O
               /\ SubSeq(a, Len(a) - O + 1, Len(a)) = SubSeq(b, 1, O)

\* C16 (amended): for every pair of consecutive chunks whose earlier chunk is
\* a full window of S words, the last O words of the earlier chunk are the
\* first O words of the later one; after a shorter window the later chunk is
\* the words of the earlier one from offset S-O on.
C16_OverlapRepeats ==
    (OverlapBelowSize /\ last.out.kind = "return") =>
        \A j \in 1..(Len(Chunks) - 1) :
            LET a == WordsOf(Chunks[j])
                b == WordsOf(Chunks[j + 1])
                S == last.arg.chunk_size
                O == last.arg.overlap
            IN IF Len(a) = S
               THEN Len(b) >= O /\ SubSeq(a, S - O + 1, S) = SubSeq(b, 1, O)
               ELSE b = SubSeq(a, S - O + 1, Len(a))

\* C16 witness: five words with S = 3 and O = 2: full windows that share two
\* words, then the windows that start inside the last full one.
C16_Witness ==
    /\ FixedChunked /\ last.arg.text = TextFiveWords
    /\ last.arg.chunk_size = 3 /\ last.arg.overlap = 2
    /\ Len(Chunks) = 5
    /\ WordsOf(Chunks[2]) = <<<<"b">>, <<"c">>, <<"d">>>>
    /\ WordsOf(Chunks[4]) = <<<<"d">>, <<"e">>>>

\* C17: for both chunkers, every text and every metadata map of the caller,
\* the i-th returned chunk carries chunk_index i, counted from 0: the
\* chunk_index values are strictly increasing in output order.
C17_ChunkIndexIncreasing ==
    ((FixedChunked \/ SemanticChunked) /\ last.out.kind = "return") =>
        \A j \in DOMAIN Chunks :
            DictGet(Chunks[j].metadata, "chunk_index", None) = IntVal(j - 1)

\* C18: for every text and every max_size / min_size, each chunk that
\* SemanticChunking.chunk_text emits, final or not, has a text of at least
\* min_size characters; a trailing buffer below min_size gives no chunk.
C18_MinSizeRespected ==
    SemanticChunked =>
        \A j \in DOMAIN Chunks : Len(Chunks[j].text) >= last.arg.min_chunk_size

\* C23: get_chunking_strategy returns a fixed-size chunker (size 512, overlap
\* 50) for 'fixed_size' and for every unknown name, a semantic chunker (max
\* 1000, min 100 characters) for 'semantic', and never raises.
C23_FactoryDefaults ==
    last.op = "get_chunking_strategy" =>
        /\ last.out.kind = "return"
        /\ IF last.arg.strategy_name = "semantic"
           THEN /\ last.out.value.class = "SemanticChunking"
                /\ last.out.value.max_chunk_size = 1000
                /\ last.out.value.min_chunk_size = 100
           ELSE /\ last.out.value.class = "FixedSizeChunking"
                /\ last.out.value.chunk_size = 512
                /\ last.out.value.overlap = 50

\* C23 witness: an unknown name has been answered with the fixed-size chunker.
C23_Witness ==
    /\ last.op = "get_chunking_strategy"
    /\ last.arg.strategy_name = "recursive"
    /\ last.out.kind = "return" /\ last.out.value.class = "FixedSizeChunking"

\* the buffer with the sentence appended to it
Appended(buffer, sentence) ==
    IF buffer = <<>> THEN sentence ELSE buffer \o <<" ">> \o sentence
\* the sentence steps of the last SemanticChunking.chunk_text call
LastBuffers ==
    SemanticBuffers(ParagraphSentences(SplitParagraphs(last.arg.text, <<>>, <<>>), 0), <<>>,
                    last.arg.max_chunk_size, last.arg.min_chunk_size)
\* the number of the chunk the sentence of step k goes into
ChunkOfStep(log, k) == Cardinality({i \in 1..k : log[i].emitted}) + 1

\* C24: SemanticChunking.chunk_text flushes the buffer exactly when appending
\* the next sentence would make it exceed max_size and its length is at least
\* min_size, and the sentence then starts the next buffer; so an emitted chunk
\* is longer than max_size only if the buffer was below min_size when the
\* overflowing sentence was appended.
C24_FlushOnOverflow ==
    SemanticChunked =>
        LET log == LastBuffers
            max_size == last.arg.max_chunk_size
            min_size == last.arg.min_chunk_size
            Overflows(k) == Len(Appended(log[k].before, log[k].sentence)) > max_size
        IN /\ \A k \in DOMAIN log :
                /\ log[k].emitted <=> (Overflows(k) /\ Len(log[k].before) >= min_size)
                /\ log[k].emitted => log[k].after = log[k].sentence
           /\ \A j \in DOMAIN Chunks :
                Len(Chunks[j].text) > max_size =>
                    \E k \in DOMAIN log :
                        /\ ChunkOfStep(log, k) = j
                        /\ ~log[k].emitted /\ Overflows(k)
                        /\ Len(log[k].before) < min_size

(***************************************************************************)
(* Claims about the embedding service (under SpecEmbedding).               *)
(***************************************************************************)
EmbeddingsReturned == last.op = "generate_embeddings" /\ last.out.kind = "return"
Embeddings == last.out.value

\* C21: generate_embeddings returns exactly one vector per input text, in
\* input order, all from one backend and of one dimension: a remote failure
\* on any batch, also after earlier batches succeeded, never yields a partial
\* list or a mix of remote and local vectors.
C21_OneBackendPerCall ==
    EmbeddingsReturned =>
        /\ Len(Embeddings) = Len(last.arg.texts)
        /\ \A i \in DOMAIN Embeddings : Embeddings[i].text = last.arg.texts[i]
        /\ \A i, j \in DOMAIN Embeddings :
              /\ Embeddings[i].backend = Embeddings[j].backend
              /\ Embeddings[i].dimension = Embeddings[j].dimension

\* C21 witness: the remote call failed on the second batch after the first
\* had succeeded, and every vector returned is a local one.
C21_Witness ==
    /\ EmbeddingsReturned
    /\ last.arg.model_type = "cohere" /\ last.arg.cohere_client
    /\ last.arg.fail_at = 2 /\ Len(last.arg.texts) = batch_size + 1
    /\ Len(Embeddings) = batch_size + 1
    /\ \A i \in DOMAIN Embeddings : Embeddings[i].backend = "sentence_transformer"

\* C22: get_embedding_dimension() equals the length of the vectors that
\* generate_embeddings returns under the same configuration, also when the
\* remote backend is configured and the local backend serves (default model
\* type, or fallback after a remote failure).
C22_DimensionOfServingBackend ==
    EmbeddingsReturned =>
        \A i \in DOMAIN Embeddings :
            Embeddings[i].dimension =
                get_embedding_dimension(last.arg.cohere_client, last.arg.local_dimension)

(***************************************************************************)
(* Claims about concurrent queries (under SpecConcurrent).                 *)
(***************************************************************************)
\* the stored turns of a session, oldest first
Transcript(s) ==
    [i \in 1..Len(redis[s]) |-> json_loads(redis[s][Len(redis[s]) + 1 - i])]
IsUserTurn(turn) == DictGet(turn, "role", None) = Str(RoleUser)

\* C25: when two process_chat_query runs for the same session execute
\* concurrently, the stored transcript still pairs every user turn with its
\* own answer: each user turn is immediately followed by the assistant turn
\* produced for that same query.
C25_TurnsPaired ==
    (\A r \in Reqs : Returned(r)) =>
        \A s \in Sessions :
            \A i \in DOMAIN Transcript(s) :
                IsUserTurn(Transcript(s)[i]) =>
                    /\ i < Len(Transcript(s))
                    /\ \E r \in Reqs :
                          /\ req[r].session_id = s
                          /\ req[r].pushed = <<Transcript(s)[i], Transcript(s)[i + 1]>>

(***************************************************************************)
(* Claims about the documents API (under SpecDocuments). The records a     *)
(* later request can reach are those of the remote collection: an          *)
(* InMemoryVectorStore lives as long as the request that built it.         *)
(***************************************************************************)
UploadReturned == last.op = "upload_document" /\ last.out.kind = "return"
PointDocument(point) == point[2].payload["document_id"]
CommittedIds == {d.id : d \in documents}

\* C27: with the in-memory vector store configured, a record stored by a
\* document upload is visible to the search of every later query (and to the
\* delete of a later document deletion): all get_vector_store() callers
\* operate on the same record set.
C27_UploadVisibleToSearch ==
    [][(/\ vector_store_type = "memory"
        /\ UploadReturned
        /\ last'.op = "retrieve_relevant_chunks"
        /\ last'.arg.top_k >= Cardinality(drawn.chunk_ids))
       => (/\ last'.out.kind = "return"
           /\ \A i \in DOMAIN last.arg.chunk_ids :
                 \E j \in DOMAIN last'.out.value :
                     last'.out.value[j][1] = last.arg.chunk_ids[i])]_(last.op)

\* C28: after delete_document reports success for a document, the vector
\* store holds no record whose payload document_id is that document, also
\* when the vector backend's delete call fails.
C28_DeletedDocumentUnsearchable ==
    (last.op = "delete_document" /\ last.out.kind = "return") =>
        \A i \in DOMAIN collection.points :
            PointDocument(collection.points[i]) # Str(last.arg.document_id)

\* C29: document upload is all-or-nothing across its stores: when
\* upload_document fails after the vectors were added, no vector record of
\* that upload remains in the vector store, so every searchable record belongs
\* to a committed document.
C29_UploadAllOrNothing ==
    /\ (last.op = "upload_document" /\ last.out.kind = "raise") =>
          \A i \in DOMAIN last.arg.chunk_ids :
              last.arg.chunk_ids[i] \notin KeySet(collection.points)
    /\ last.op = "upload_document" =>
          \A i \in DOMAIN collection.points :
              \E id \in CommittedIds : PointDocument(collection.points[i]) = Str(id)

(***************************************************************************)
(* Further claims about the chat memory (under SpecMemory) and the vector  *)
(* store (under SpecStore).                                                *)
(***************************************************************************)
\* C26: in every reachable state of the session store, also between the push
\* and the set-expiry call of save_message and after a save_message whose
\* set-expiry call failed, a session key that holds at least one turn has an
\* expiry set.
C26_StoredTurnsExpire ==
    \A s \in Sessions : redis[s] # <<>> => expiry[s] # NoExpiry

\* C30: every id add_vectors returns identifies a stored record: for all
\* argument lists, also a payload or id list shorter than the vector list, the
\* generated ids are pairwise distinct, each returned id is retrievable
\* afterwards, and the vector map and the payload map have the same key set.
C30_ReturnedIdsStored ==
    /\ vector_store_type = "memory" => KeySet(vectors) = KeySet(metadata)
    /\ (last.op = "add" /\ last.out.kind = "return") =>
          /\ \A i \in DOMAIN last.out.value : last.out.value[i] \in StoreKeys
          /\ last.arg.ids = None =>
                \A i, j \in DOMAIN last.out.value :
                    i # j => last.out.value[i] # last.out.value[j]

====
